---- MODULE Spec2Model ----
(***************************************************************************)
(* Model of BadGateway (src/src/main.rs): the request engine               *)
(* (send_request), the cURL importer (parse_curl), the JSON pretty-printer *)
(* and tokenizer (format_json, json_to_spans) and the application's        *)
(* message handler (App::update).                                          *)
(*                                                                         *)
(* Rust Strings are TLA+ strings; TLC evaluates Len, SubSeq and \o on      *)
(* them.  Option<T> is a sequence of length 0 (None) or 1 (Some).          *)
(***************************************************************************)
EXTENDS Integers, Sequences, FiniteSets, TLC

(***************************************************************************)
(* String primitives of the Rust standard library, as they act on the      *)
(* ASCII texts the model draws.                                            *)
(***************************************************************************)
None == <<>>

Some(x) == <<x>>

\* the i-th character of s, "" beyond its ends
CharAt(s, i) == IF i \in 1..Len(s) THEN SubSeq(s, i, i) ELSE ""

\* whether w stands in s at position i
HasAt(s, i, w) == i >= 1 /\ i + Len(w) - 1 <= Len(s) /\ SubSeq(s, i, i + Len(w) - 1) = w

CharsOf(s) == {CharAt(s, i) : i \in 1..Len(s)}

\* char::is_whitespace on the ASCII range
WhiteSpace == {" ", "\t", "\n", "\r"}

StartsWith(s, p) == HasAt(s, 1, p)

\* position of the first occurrence of the character c in s, 0 when absent
FindChar(s, c) ==
    IF \E i \in 1..Len(s) : CharAt(s, i) = c
    THEN CHOOSE i \in 1..Len(s) :
            CharAt(s, i) = c /\ \A j \in 1..(i - 1) : CharAt(s, j) # c
    ELSE 0

ContainsChar(s, c) == FindChar(s, c) # 0

\* str::trim
Trim(s) ==
    LET keep == {i \in 1..Len(s) : CharAt(s, i) \notin WhiteSpace}
    IN  IF keep = {} THEN ""
        ELSE LET lo == CHOOSE i \in keep : \A j \in keep : i <= j
                 hi == CHOOSE i \in keep : \A j \in keep : i >= j
             IN  SubSeq(s, lo, hi)

\* str::split_once(c): None, or Some(<<before, after>>) around the first c
SplitOnce(s, c) ==
    LET p == FindChar(s, c)
    IN  IF p = 0 THEN None
        ELSE Some(<<SubSeq(s, 1, p - 1), SubSeq(s, p + 1, Len(s))>>)

\* a line of str::lines() loses one trailing carriage return
StripCR(l) ==
    IF Len(l) > 0 /\ CharAt(l, Len(l)) = "\r" THEN SubSeq(l, 1, Len(l) - 1) ELSE l

\* str::lines(): split on "\n"; a final empty piece is not a line
RECURSIVE Lines(_)
Lines(s) ==
    IF s = "" THEN <<>>
    ELSE LET p == FindChar(s, "\n")
         IN  IF p = 0 THEN <<StripCR(s)>>
             ELSE <<StripCR(SubSeq(s, 1, p - 1))>> \o Lines(SubSeq(s, p + 1, Len(s)))

\* [T]::join(sep) on strings
RECURSIVE Join(_, _)
Join(ss, sep) ==
    IF Len(ss) = 0 THEN ""
    ELSE IF Len(ss) = 1 THEN ss[1]
    ELSE ss[1] \o sep \o Join(Tail(ss), sep)

LowerLetters == "abcdefghijklmnopqrstuvwxyz"

UpperLetters == "ABCDEFGHIJKLMNOPQRSTUVWXYZ"

UpperChar(c) ==
    LET p == FindChar(LowerLetters, c) IN IF p = 0 THEN c ELSE CharAt(UpperLetters, p)

LowerChar(c) ==
    LET p == FindChar(UpperLetters, c) IN IF p = 0 THEN c ELSE CharAt(LowerLetters, p)

\* str::to_uppercase, character by character (the text is halved so that the
\* evaluation stays shallow)
RECURSIVE ToUppercase(_)
ToUppercase(s) ==
    IF Len(s) = 0 THEN ""
    ELSE IF Len(s) = 1 THEN UpperChar(s)
    ELSE LET mid == Len(s) \div 2
         IN  ToUppercase(SubSeq(s, 1, mid)) \o ToUppercase(SubSeq(s, mid + 1, Len(s)))

\* str::to_lowercase
RECURSIVE ToLowercase(_)
ToLowercase(s) ==
    IF Len(s) = 0 THEN ""
    ELSE IF Len(s) = 1 THEN LowerChar(s)
    ELSE LET mid == Len(s) \div 2
         IN  ToLowercase(SubSeq(s, 1, mid)) \o ToLowercase(SubSeq(s, mid + 1, Len(s)))

(***************************************************************************)
(* Base64, standard alphabet with padding                                   *)
(* (base64::engine::general_purpose::STANDARD).                            *)
(***************************************************************************)
\* the ASCII characters of codes 32..95 and 97..126 (a string literal cannot
\* hold the grave accent, code 96, which no modelled text contains)
PrintableLow ==
    " !\"#$%&'()*+,-./0123456789:;<=>?@ABCDEFGHIJKLMNOPQRSTUVWXYZ[\\]^_"

PrintableHigh == "abcdefghijklmnopqrstuvwxyz{|}~"

B64Alphabet == "ABCDEFGHIJKLMNOPQRSTUVWXYZabcdefghijklmnopqrstuvwxyz0123456789+/"

\* the byte of an ASCII character
Ord(c) ==
    CASE c = "\t" -> 9
      [] c = "\n" -> 10
      [] c = "\r" -> 13
      [] ContainsChar(PrintableLow, c) -> 31 + FindChar(PrintableLow, c)
      [] OTHER -> 96 + FindChar(PrintableHigh, c)

Bytes(s) == [i \in 1..Len(s) |-> Ord(CharAt(s, i))]

B64Char(n) == CharAt(B64Alphabet, n + 1)

RECURSIVE B64Encode(_)
B64Encode(bs) ==
    IF Len(bs) = 0 THEN ""
    ELSE IF Len(bs) = 1 THEN
        B64Char(bs[1] \div 4) \o B64Char((bs[1] % 4) * 16) \o "=="
    ELSE IF Len(bs) = 2 THEN
        B64Char(bs[1] \div 4) \o B64Char((bs[1] % 4) * 16 + bs[2] \div 16)
            \o B64Char((bs[2] % 16) * 4) \o "="
    ELSE
        B64Char(bs[1] \div 4) \o B64Char((bs[1] % 4) * 16 + bs[2] \div 16)
            \o B64Char((bs[2] % 16) * 4 + bs[3] \div 64) \o B64Char(bs[3] % 64)
            \o B64Encode(SubSeq(bs, 4, Len(bs)))

(***************************************************************************)
(* State.  The fields of struct App (src/src/main.rs:128-156) that the     *)
(* request engine reads or writes, the futures spawned by Task::perform,   *)
(* and one frame of locals for each of send_request, parse_curl and        *)
(* json_to_spans.                                                          *)
(***************************************************************************)
VARIABLES
    url, method, request_body, request_headers, query_params,
    response, loading, error, history,
    auth_type, auth_token, auth_username, auth_password,
    show_curl_import, curl_input,
    tasks,      \* the send_request futures spawned by Send and not yet resolved
    issued,     \* number of futures spawned so far
    sr,         \* frame of send_request
    pc,         \* frame of parse_curl
    js          \* frame of json_to_spans

appVars == <<url, method, request_body, request_headers, query_params,
             response, loading, error, history,
             auth_type, auth_token, auth_username, auth_password,
             show_curl_import, curl_input, tasks, issued>>

vars == <<appVars, sr, pc, js>>

Methods == {"GET", "POST", "PUT", "PATCH", "DELETE", "HEAD", "OPTIONS"}

AuthTypes == {"None", "Bearer", "Basic"}

\* a frame that is not executing
Idle == [at |-> "idle"]

(***************************************************************************)
(* send_request (src/src/main.rs:1353-1431)                                *)
(***************************************************************************)
\* reqwest refuses a URL it cannot parse or whose scheme is not http(s); the
\* refusal is kept in the builder and surfaces from send()
UrlValid(u) ==
    \/ StartsWith(u, "http://") /\ Len(u) > Len("http://")
    \/ StartsWith(u, "https://") /\ Len(u) > Len("https://")

\* http::HeaderName: a non-empty run of token characters (ASCII)
TokenChars ==
    CharsOf(LowerLetters) \cup CharsOf(UpperLetters) \cup CharsOf("0123456789")
        \cup CharsOf("!#$%&'*+-.^_|~")

HeaderNameValid(k) == k # "" /\ CharsOf(k) \subseteq TokenChars

\* http::HeaderValue: visible ASCII, space and tab
HeaderValueValid(v) ==
    CharsOf(v) \subseteq (CharsOf(PrintableLow) \cup CharsOf(PrintableHigh) \cup {"\t"})

\* match method { ... } (1367-1375): a builder for the verb and the URL
NewBuilder(m, u) ==
    [method |-> m, url |-> u, headers |-> <<>>, body |-> None, err |-> ~UrlValid(u)]

\* AddHeader replacing the headers of the same name (HeaderMap::insert)
AddHeader_Replace(b, k, v) ==
    IF b.err THEN b
    ELSE IF HeaderNameValid(k) /\ HeaderValueValid(v)
         THEN [b EXCEPT !.headers =
                  Append(SelectSeq(@, LAMBDA h : ToLowercase(h[1]) # ToLowercase(k)), <<k, v>>)]
         ELSE [b EXCEPT !.err = TRUE]

\* RequestBuilder::header: appends, or keeps the first error
AddHeader(b, k, v) ==
    IF b.err THEN b
    ELSE IF HeaderNameValid(k) /\ HeaderValueValid(v)
         THEN [b EXCEPT !.headers = Append(@, <<k, v>>)]
         ELSE [b EXCEPT !.err = TRUE]

\* ApplyAuth without the tests for an empty token and an empty username
ApplyAuth_Unguarded(b, at, token, user, pass) ==
    CASE at = "Bearer" ->
            AddHeader(b, "Authorization", "Bearer " \o token)
      [] at = "Basic" ->
            AddHeader(b, "Authorization",
                      "Basic " \o B64Encode(Bytes(user \o ":" \o pass)))
      [] OTHER -> b

\* match auth_type { ... } (1377-1392)
ApplyAuth(b, at, token, user, pass) ==
    CASE at = "Bearer" /\ token # "" ->
            AddHeader(b, "Authorization", "Bearer " \o token)
      [] at = "Basic" /\ user # "" ->
            AddHeader(b, "Authorization",
                      "Basic " \o B64Encode(Bytes(user \o ":" \o pass)))
      [] OTHER -> b

\* for line in headers_str.lines() { ... } (1394-1398)
RECURSIVE ApplyHeaderLines(_, _)
ApplyHeaderLines(b, lines) ==
    IF Len(lines) = 0 THEN b
    ELSE LET kv == SplitOnce(lines[1], ":")
             b1 == IF kv = None THEN b
                   ELSE AddHeader(b, Trim(kv[1][1]), Trim(kv[1][2]))
         IN  ApplyHeaderLines(b1, Tail(lines))

\* ApplyBody without the test of the method
ApplyBody_AnyMethod(b, m, body) ==
    IF body # "" /\ ~b.err THEN [b EXCEPT !.body = Some(body)] ELSE b

\* if matches!(method, POST | PUT | PATCH) && !body.is_empty() (1400-1402)
ApplyBody(b, m, body) ==
    IF m \in {"POST", "PUT", "PATCH"} /\ body # "" /\ ~b.err
    THEN [b EXCEPT !.body = Some(body)]
    ELSE b

\* the request send_request has built when it reaches builder.send()
BuildRequest(u, m, body, headers_str, at, token, user, pass) ==
    ApplyBody(
        ApplyHeaderLines(ApplyAuth(NewBuilder(m, u), at, token, user, pass),
                         Lines(headers_str)),
        m, body)

\* StatusCode::canonical_reason for the statuses the model's transport returns
CanonicalReason(st) ==
    CASE st = 200 -> "OK"
      [] st = 404 -> "Not Found"
      [] st = 500 -> "Internal Server Error"
      [] OTHER -> ""

\* what the transport capability can deliver
Statuses == {200, 404, 500}

RespBodies == {"", "{\"a\":1}"}

RespHeaders == <<<<"content-type", "application/json">>>>

\* longest time one await of the transport takes, in clock ticks
MaxLatency == 1

\* the arguments the model passes to send_request
SendUrls == {"https://x.test/a", "x.test"}

SendBodies == {"", "{\"a\":1}"}

SendHeaderTexts ==
    { "",
      "Content-Type: application/json\n",
      "Authorization: mine\nX-A:1\r\nX-A : 2",
      "no colon\n: v" }

SendTokens == {"", "abc123"}

SendUsernames == {"", "alice"}

SendPasswords == {"", "secret"}

\* the frame at the call (1353-1362); `now` is the monotonic clock
SendFrame(u, m, body, headers_str, at, token, user, pass) ==
    [ at |-> "entry",
      url |-> u, method |-> m, body |-> body, headers_str |-> headers_str,
      auth_type |-> at, auth_token |-> token,
      auth_username |-> user, auth_password |-> pass,
      now |-> 0, start |-> None, builder |-> None,
      wire |-> None,          \* the request the transport was given
      head |-> None,          \* status line and headers received
      duration |-> None,
      events |-> <<>>,        \* the steps taken, in order
      result |-> None ]

\* let start = StdInstant::now(); (1364)
SrStart ==
    /\ sr.at = "entry"
    /\ sr' = [sr EXCEPT !.at = "client", !.start = Some(sr.now),
                        !.events = Append(@, "start")]
    /\ UNCHANGED <<appVars, pc, js>>

\* reqwest::Client::new() and match method { ... } (1365-1375)
SrBuilder ==
    /\ sr.at = "client"
    /\ sr' = [sr EXCEPT !.at = "auth",
                        !.builder = Some(NewBuilder(sr.method, sr.url)),
                        !.events = Append(@, "build")]
    /\ UNCHANGED <<appVars, pc, js>>

\* match auth_type { ... } (1377-1392)
SrAuth ==
    /\ sr.at = "auth"
    /\ sr' = [sr EXCEPT !.at = "headers",
                        !.builder = Some(ApplyAuth(sr.builder[1], sr.auth_type,
                                        sr.auth_token, sr.auth_username,
                                        sr.auth_password))]
    /\ UNCHANGED <<appVars, pc, js>>

\* for line in headers_str.lines() { ... } (1394-1398)
SrHeaders ==
    /\ sr.at = "headers"
    /\ sr' = [sr EXCEPT !.at = "body",
                        !.builder = Some(ApplyHeaderLines(sr.builder[1],
                                                          Lines(sr.headers_str)))]
    /\ UNCHANGED <<appVars, pc, js>>

\* if matches!(method, ...) && !body.is_empty() { builder.body(body) } (1400-1402)
SrBody ==
    /\ sr.at = "body"
    /\ sr' = [sr EXCEPT !.at = "send",
                        !.builder = Some(ApplyBody(sr.builder[1], sr.method, sr.body))]
    /\ UNCHANGED <<appVars, pc, js>>

\* builder.send().await resolves with the status line and the headers (1404)
SrSendOk ==
    /\ sr.at = "send"
    /\ ~sr.builder[1].err
    /\ \E st \in Statuses, d \in 1..MaxLatency :
          sr' = [sr EXCEPT !.at = "elapsed",
                           !.wire = Some(sr.builder[1]),
                           !.head = Some([status |-> st, headers |-> RespHeaders]),
                           !.now = @ + d,
                           !.events = Append(@, "headers_received")]
    /\ UNCHANGED <<appVars, pc, js>>

\* builder.send().await fails: the builder holds an error (nothing is sent), or
\* the transport fails; map_err(|e| e.to_string())? returns (1404)
SrSendErr ==
    /\ sr.at = "send"
    /\ \E d \in 0..MaxLatency :
          sr' = [sr EXCEPT !.at = "done",
                           !.wire = IF sr.builder[1].err THEN None
                                    ELSE Some(sr.builder[1]),
                           !.now = @ + d,
                           !.result = Some([ok |-> FALSE, err |-> "error sending request"])]
    /\ UNCHANGED <<appVars, pc, js>>

\* let duration = start.elapsed(); (1405)
SrElapsed ==
    /\ sr.at = "elapsed"
    /\ sr' = [sr EXCEPT !.at = "text",
                        !.duration = Some(sr.now - sr.start[1]),
                        !.events = Append(@, "elapsed")]
    /\ UNCHANGED <<appVars, pc, js>>

\* SrTextOk treating a 4xx or 5xx status as a failure (error_for_status)
SrTextOk_ErrorForStatus ==
    /\ sr.at = "text"
    /\ \E b \in RespBodies, d \in 0..MaxLatency :
          sr' = [sr EXCEPT !.at = "done",
                           !.now = @ + d,
                           !.events = Append(@, "body_read"),
                           !.result =
                              IF sr.head[1].status >= 400
                              THEN Some([ok |-> FALSE, err |-> "HTTP status error"])
                              ELSE Some([ok |-> TRUE,
                                         response |->
                                           [status |-> sr.head[1].status,
                                            status_text |-> CanonicalReason(sr.head[1].status),
                                            headers |-> sr.head[1].headers,
                                            body |-> b,
                                            duration |-> sr.duration[1],
                                            size |-> Len(b)]])]
    /\ UNCHANGED <<appVars, pc, js>>

\* status, status_text, headers (1407-1418); response.text().await reads the
\* whole body (1420); Ok(Response { ... }) (1421-1430)
SrTextOk ==
    /\ sr.at = "text"
    /\ \E b \in RespBodies, d \in 0..MaxLatency :
          sr' = [sr EXCEPT !.at = "done",
                           !.now = @ + d,
                           !.events = Append(@, "body_read"),
                           !.result = Some([ok |-> TRUE,
                               response |->
                                 [status |-> sr.head[1].status,
                                  status_text |-> CanonicalReason(sr.head[1].status),
                                  headers |-> sr.head[1].headers,
                                  body |-> b,
                                  duration |-> sr.duration[1],
                                  size |-> Len(b)]])]
    /\ UNCHANGED <<appVars, pc, js>>

\* response.text().await fails; map_err(|e| e.to_string())? returns (1420)
SrTextErr ==
    /\ sr.at = "text"
    /\ \E d \in 0..MaxLatency :
          sr' = [sr EXCEPT !.at = "done",
                           !.now = @ + d,
                           !.result = Some([ok |-> FALSE, err |-> "error decoding response body"])]
    /\ UNCHANGED <<appVars, pc, js>>

\* App::default() (201-229) with an empty history store
AppDefault ==
    /\ url = "https://httpbin.org/get"
    /\ method = "GET"
    /\ request_body = ""
    /\ request_headers = "Content-Type: application/json\n"
    /\ query_params = ""
    /\ response = None
    /\ loading = FALSE
    /\ error = None
    /\ history = <<>>
    /\ auth_type = "None"
    /\ auth_token = ""
    /\ auth_username = ""
    /\ auth_password = ""
    /\ show_curl_import = FALSE
    /\ curl_input = ""
    /\ tasks = {}
    /\ issued = 0

InitSend ==
    /\ AppDefault
    /\ pc = Idle
    /\ js = Idle
    /\ \E u \in SendUrls, m \in Methods, b \in SendBodies, h \in SendHeaderTexts,
          at \in AuthTypes, tk \in SendTokens, un \in SendUsernames,
          pw \in SendPasswords :
          sr = SendFrame(u, m, b, h, at, tk, un, pw)

NextSend ==
    \/ SrStart \/ SrBuilder \/ SrAuth \/ SrHeaders \/ SrBody
    \/ SrSendOk \/ SrSendErr \/ SrElapsed \/ SrTextOk \/ SrTextErr

SpecSend == InitSend /\ [][NextSend]_vars

(***************************************************************************)
(* parse_curl (src/src/main.rs:1582-1734)                                  *)
(***************************************************************************)
B64Val(c) == FindChar(B64Alphabet, c) - 1

\* one group of four characters; the last group may end in "=" or "=="
\* (padding is required and the unused trailing bits must be zero)
B64Quad(q, last) ==
    LET v1 == B64Val(CharAt(q, 1))
        v2 == B64Val(CharAt(q, 2))
        v3 == B64Val(CharAt(q, 3))
        v4 == B64Val(CharAt(q, 4))
    IN  IF v1 < 0 \/ v2 < 0 THEN None
        ELSE IF last /\ SubSeq(q, 3, 4) = "==" THEN
            IF v2 % 16 = 0 THEN Some(<<v1 * 4 + v2 \div 16>>) ELSE None
        ELSE IF v3 < 0 THEN None
        ELSE IF last /\ CharAt(q, 4) = "=" THEN
            IF v3 % 4 = 0
            THEN Some(<<v1 * 4 + v2 \div 16, (v2 % 16) * 16 + v3 \div 4>>)
            ELSE None
        ELSE IF v4 < 0 THEN None
        ELSE Some(<<v1 * 4 + v2 \div 16, (v2 % 16) * 16 + v3 \div 4,
                    (v3 % 4) * 64 + v4>>)

\* Engine::decode: Some(bytes), or None for DecodeError
RECURSIVE B64Decode(_)
B64Decode(s) ==
    IF s = "" THEN Some(<<>>)
    ELSE IF Len(s) < 4 THEN None
    ELSE LET q == B64Quad(SubSeq(s, 1, 4), Len(s) = 4)
             rest == B64Decode(SubSeq(s, 5, Len(s)))
         IN  IF q = None \/ rest = None THEN None ELSE Some(q[1] \o rest[1])

\* the ASCII character of a byte; a code outside the strings the module can
\* write (a control character, the grave accent) reads as "?"
Chr(n) ==
    CASE n = 9 -> "\t"
      [] n = 10 -> "\n"
      [] n = 13 -> "\r"
      [] n \in 32..95 -> CharAt(PrintableLow, n - 31)
      [] n \in 97..126 -> CharAt(PrintableHigh, n - 96)
      [] OTHER -> "?"

\* String::from_utf8: Some(text), or None when the bytes are not UTF-8.  A
\* scalar outside ASCII reads as "?".
RECURSIVE FromUtf8(_)
FromUtf8(bs) ==
    IF Len(bs) = 0 THEN Some("")
    ELSE LET b == bs[1]
             n == IF b < 128 THEN 1
                  ELSE IF b \in 194..223 THEN 2
                  ELSE IF b \in 224..239 THEN 3
                  ELSE IF b \in 240..244 THEN 4
                  ELSE 0
             lo2 == IF b = 224 THEN 160 ELSE IF b = 240 THEN 144 ELSE 128
             hi2 == IF b = 237 THEN 159 ELSE IF b = 244 THEN 143 ELSE 191
             wellFormed ==
                /\ n > 0
                /\ Len(bs) >= n
                /\ n >= 2 => bs[2] \in lo2..hi2
                /\ \A k \in 3..n : bs[k] \in 128..191
         IN  IF ~wellFormed THEN None
             ELSE LET rest == FromUtf8(SubSeq(bs, n + 1, Len(bs)))
                  IN  IF rest = None THEN None
                      ELSE Some((IF n = 1 THEN Chr(b) ELSE "?") \o rest[1])

\* TokenizeChar closing a quote at either quote character
TokenizeChar_AnyQuoteCloses(t, ch) ==
    IF ch \in {"\"", "'"} /\ ~t.in_quotes THEN
        [t EXCEPT !.in_quotes = TRUE, !.quote_char = ch]
    ELSE IF ch \in {"\"", "'"} /\ t.in_quotes THEN
        [t EXCEPT !.in_quotes = FALSE]
    ELSE IF ch \in {" ", "\n", "\t"} /\ ~t.in_quotes THEN
        IF t.current # ""
        THEN [t EXCEPT !.tokens = Append(@, t.current), !.current = ""]
        ELSE t
    ELSE IF ch = "\\" /\ ~t.in_quotes THEN
        t
    ELSE
        [t EXCEPT !.current = @ \o ch]

\* TokenizeChar ending a token at every whitespace, an empty one too
TokenizeChar_PushEmpty(t, ch) ==
    IF ch \in {"\"", "'"} /\ ~t.in_quotes THEN
        [t EXCEPT !.in_quotes = TRUE, !.quote_char = ch]
    ELSE IF ch = t.quote_char /\ t.in_quotes THEN
        [t EXCEPT !.in_quotes = FALSE]
    ELSE IF ch \in {" ", "\n", "\t"} /\ ~t.in_quotes THEN
        [t EXCEPT !.tokens = Append(@, t.current), !.current = ""]
    ELSE IF ch = "\\" /\ ~t.in_quotes THEN
        t
    ELSE
        [t EXCEPT !.current = @ \o ch]

\* the tokenizer's loop body (1609-1628) for one character;
\* t = [tokens, current, in_quotes, quote_char]
TokenizeChar(t, ch) ==
    IF ch \in {"\"", "'"} /\ ~t.in_quotes THEN
        [t EXCEPT !.in_quotes = TRUE, !.quote_char = ch]
    ELSE IF ch = t.quote_char /\ t.in_quotes THEN
        [t EXCEPT !.in_quotes = FALSE]
    ELSE IF ch \in {" ", "\n", "\t"} /\ ~t.in_quotes THEN
        IF t.current # ""
        THEN [t EXCEPT !.tokens = Append(@, t.current), !.current = ""]
        ELSE t
    ELSE IF ch = "\\" /\ ~t.in_quotes THEN
        t
    ELSE
        [t EXCEPT !.current = @ \o ch]

\* for ch in input.chars() (1608) over the characters lo..hi, left to right
\* (the range is halved so that the evaluation stays shallow)
RECURSIVE Tokenize(_, _, _, _)
Tokenize(input, lo, hi, t) ==
    IF lo > hi THEN t
    ELSE IF lo = hi THEN TokenizeChar(t, CharAt(input, lo))
    ELSE LET mid == (lo + hi) \div 2
             left == Tokenize(input, lo, mid, t)
         IN  IF left.in_quotes \in BOOLEAN    \* the left half is evaluated first
             THEN Tokenize(input, mid + 1, hi, left)
             ELSE t

\* the tokens of an input (1602-1632)
CurlTokens(input) ==
    LET t == Tokenize(input, 1, Len(input),
                 [tokens |-> <<>>, current |-> "", in_quotes |-> FALSE,
                  quote_char |-> "\""])
    IN  IF t.current # "" THEN Append(t.tokens, t.current) ELSE t.tokens

\* VerbOf without to_uppercase
VerbOf_CaseSensitive(v) == IF v \in Methods THEN v ELSE "GET"

\* match tokens[i + 1].to_uppercase().as_str() { ... } (1640-1649)
VerbOf(v) ==
    LET up == ToUppercase(v)
    IN  CASE up = "GET" -> "GET"
          [] up = "POST" -> "POST"
          [] up = "PUT" -> "PUT"
          [] up = "PATCH" -> "PATCH"
          [] up = "DELETE" -> "DELETE"
          [] up = "HEAD" -> "HEAD"
          [] up = "OPTIONS" -> "OPTIONS"
          [] OTHER -> "GET"

\* HeaderArm dropping every Authorization header that sets no auth
HeaderArm_DropAuthorization(f, header) ==
    IF StartsWith(ToLowercase(header), "authorization:") THEN
        LET value == Trim(SubSeq(header, FindChar(header, ":") + 1, Len(header)))
        IN  IF StartsWith(ToLowercase(value), "bearer ") THEN
                [f EXCEPT !.auth = Some(<<"Bearer", SubSeq(value, 8, Len(value)), "", "">>)]
            ELSE IF StartsWith(ToLowercase(value), "basic ") THEN
                LET decoded == B64Decode(Trim(SubSeq(value, 7, Len(value))))
                    creds == IF decoded = None THEN None ELSE FromUtf8(decoded[1])
                    up == IF creds = None THEN None ELSE SplitOnce(creds[1], ":")
                IN  IF up = None THEN f
                    ELSE [f EXCEPT !.auth = Some(<<"Basic", "", up[1][1], up[1][2]>>)]
            ELSE f
    ELSE [f EXCEPT !.headers = Append(@, header)]

\* HeaderArm keeping a Basic header it cannot decode among the headers
HeaderArm_KeepUndecoded(f, header) ==
    IF StartsWith(ToLowercase(header), "authorization:") THEN
        LET value == Trim(SubSeq(header, FindChar(header, ":") + 1, Len(header)))
        IN  IF StartsWith(ToLowercase(value), "bearer ") THEN
                [f EXCEPT !.auth = Some(<<"Bearer", SubSeq(value, 8, Len(value)), "", "">>)]
            ELSE IF StartsWith(ToLowercase(value), "basic ") THEN
                LET decoded == B64Decode(Trim(SubSeq(value, 7, Len(value))))
                    creds == IF decoded = None THEN None ELSE FromUtf8(decoded[1])
                    up == IF creds = None THEN None ELSE SplitOnce(creds[1], ":")
                IN  IF up = None THEN [f EXCEPT !.headers = Append(@, header)]
                    ELSE [f EXCEPT !.auth = Some(<<"Basic", "", up[1][1], up[1][2]>>)]
            ELSE [f EXCEPT !.headers = Append(@, header)]
    ELSE [f EXCEPT !.headers = Append(@, header)]

\* HeaderArm comparing the Bearer prefix without to_lowercase
HeaderArm_CaseSensitive(f, header) ==
    IF StartsWith(ToLowercase(header), "authorization:") THEN
        LET value == Trim(SubSeq(header, FindChar(header, ":") + 1, Len(header)))
        IN  IF StartsWith(value, "Bearer ") THEN
                [f EXCEPT !.auth = Some(<<"Bearer", SubSeq(value, 8, Len(value)), "", "">>)]
            ELSE [f EXCEPT !.headers = Append(@, header)]
    ELSE [f EXCEPT !.headers = Append(@, header)]

\* the body of the "-H" arm (1655-1688): the auth and the headers after it
HeaderArm(f, header) ==
    IF StartsWith(ToLowercase(header), "authorization:") THEN
        LET value == Trim(SubSeq(header, FindChar(header, ":") + 1, Len(header)))
        IN  IF StartsWith(ToLowercase(value), "bearer ") THEN
                [f EXCEPT !.auth = Some(<<"Bearer", SubSeq(value, 8, Len(value)), "", "">>)]
            ELSE IF StartsWith(ToLowercase(value), "basic ") THEN
                LET decoded == B64Decode(Trim(SubSeq(value, 7, Len(value))))
                    creds == IF decoded = None THEN None ELSE FromUtf8(decoded[1])
                    up == IF creds = None THEN None ELSE SplitOnce(creds[1], ":")
                IN  IF up = None THEN f
                    ELSE [f EXCEPT !.auth = Some(<<"Basic", "", up[1][1], up[1][2]>>)]
            ELSE [f EXCEPT !.headers = Append(@, header)]
    ELSE [f EXCEPT !.headers = Append(@, header)]

\* UserArm leaving an auth that an earlier flag has set
UserArm_KeepEarlier(f, creds) ==
    LET up == SplitOnce(creds, ":")
    IN  IF up = None \/ f.auth # None THEN f
        ELSE [f EXCEPT !.auth = Some(<<"Basic", "", up[1][1], up[1][2]>>)]

\* the body of the "-u" arm (1703-1711)
UserArm(f, creds) ==
    LET up == SplitOnce(creds, ":")
    IN  IF up = None THEN f
        ELSE [f EXCEPT !.auth = Some(<<"Basic", "", up[1][1], up[1][2]>>)]

\* the body of the "-d" arm (1694-1697)
DataArm(f, value) ==
    [f EXCEPT !.body = value,
              !.method = IF f.method = "GET" THEN "POST" ELSE f.method]

RequestFlags == {"-X", "--request"}

HeaderFlags == {"-H", "--header"}

DataFlags == {"-d", "--data", "--data-raw", "--data-binary"}

UserFlags == {"-u", "--user"}

IsUrlToken(t) == StartsWith(t, "http://") \/ StartsWith(t, "https://")

\* which arm of match token.as_str() { ... } (1637-1719) takes a token
ArmOf(t) ==
    CASE t \in RequestFlags -> "request"
      [] t \in HeaderFlags -> "header"
      [] t \in DataFlags -> "data"
      [] t \in UserFlags -> "user"
      [] IsUrlToken(t) -> "url"
      [] OTHER -> "other"

\* CurlStep keeping the first URL token it meets
CurlStep_FirstUrl(f) ==
    LET token == f.tokens[f.i]
        arm == ArmOf(token)
        hasNext == f.i + 1 <= Len(f.tokens)
        next == f.tokens[f.i + 1]
        g == [f EXCEPT !.arms = Append(@, [arm |-> arm, at |-> f.i,
                                           value |-> hasNext /\ arm \notin {"url", "other"}])]
    IN  IF arm \in {"request", "header", "data", "user"} THEN
            IF hasNext THEN
                LET h == CASE arm = "request" -> [g EXCEPT !.method = VerbOf(next)]
                           [] arm = "header" -> HeaderArm(g, next)
                           [] arm = "data" -> DataArm(g, next)
                           [] arm = "user" -> UserArm(g, next)
                IN  [h EXCEPT !.i = f.i + 2]
            ELSE [g EXCEPT !.i = f.i + 1]
        ELSE IF arm = "url" THEN
            [g EXCEPT !.url = IF f.url = "" THEN token ELSE f.url, !.i = f.i + 1]
        ELSE [g EXCEPT !.i = f.i + 1]

\* one iteration of while i < tokens.len() (1635-1721); f.i counts from 1.
\* f.arms records, per iteration, the arm taken and whether it had a value.
CurlStep(f) ==
    LET token == f.tokens[f.i]
        arm == ArmOf(token)
        hasNext == f.i + 1 <= Len(f.tokens)
        next == f.tokens[f.i + 1]
        g == [f EXCEPT !.arms = Append(@, [arm |-> arm, at |-> f.i,
                                           value |-> hasNext /\ arm \notin {"url", "other"}])]
    IN  IF arm \in {"request", "header", "data", "user"} THEN
            IF hasNext THEN
                LET h == CASE arm = "request" -> [g EXCEPT !.method = VerbOf(next)]
                           [] arm = "header" -> HeaderArm(g, next)
                           [] arm = "data" -> DataArm(g, next)
                           [] arm = "user" -> UserArm(g, next)
                IN  [h EXCEPT !.i = f.i + 2]
            ELSE [g EXCEPT !.i = f.i + 1]
        ELSE IF arm = "url" THEN [g EXCEPT !.url = token, !.i = f.i + 1]
        ELSE [g EXCEPT !.i = f.i + 1]

\* the frame when the scan starts (1596-1600, 1634), over the tokens of input
CurlFrame(input) ==
    [ at |-> "entry", input |-> input, tokens |-> <<>>, i |-> 1,
      url |-> "", method |-> "GET", headers |-> <<>>, body |-> "", auth |-> None,
      arms |-> <<>>, result |-> None, returned |-> FALSE ]

RECURSIVE CurlLoop(_)
CurlLoop(f) ==
    IF f.i > Len(f.tokens) THEN f
    ELSE LET g == CurlStep(f)
         IN  IF g.i > f.i THEN CurlLoop(g) ELSE f

\* what parse_curl returns from the frame its loop ended in (1723-1733)
CurlResult(f) ==
    IF f.url = "" THEN None
    ELSE Some([url |-> f.url, method |-> f.method,
               headers |-> Join(f.headers, "\n"), body |-> f.body, auth |-> f.auth])

\* parse_curl as a function: None or Some(ParsedCurl)
ParseCurl(input) ==
    LET trimmed == Trim(input)
    IN  IF ~StartsWith(trimmed, "curl") THEN None
        ELSE CurlResult(CurlLoop([CurlFrame(input) EXCEPT !.tokens = CurlTokens(trimmed)]))

\* the arguments the model builds command lines from
CurlArgs ==
    { "-X", "put", "GET", "-d", "-H", "'authorization: BEARER abc'", "-u", "a:b",
      "http://x" }

\* most arguments after the word curl in a built command line
MaxArgs == 4

\* command lines given whole
CurlExamples ==
    { "",
      "curl",
      "not a curl command",
      "curlx https://x.test",
      "\"curl\" https://x.test",
      "  curl\thttps://x.test\n",
      "curl -X POST https://api.example.com/x -H \"Authorization: Bearer abc123\" -d '{\"a\":1}'",
      "curl -u alice:secret https://x.test",
      "curl https://x.test -d foo=bar",
      "curl -X GET https://x.test -d foo=bar",
      "curl -X post -X Put https://x.test",
      "curl --request options --data-raw a --data-binary 'b c' --data d https://x.test",
      "curl -H 'Authorization:bearer  t k ' -H 'Authorization: Bearer ' --header Accept:*/* http://x.test",
      "curl -H 'Authorization: Basic YWxpY2U6c2VjcmV0' -H 'Authorization: Basic !!' https://x.test",
      "curl -H 'Authorization: Digest abc' -H ' Authorization: Bearer abc' https://x.test",
      "curl \\\n  -X DELETE \\\n  'https://x.test/a b' '' -u nocolon",
      "curl -u a:b -H 'Authorization: Basic /w==' https://x.test",
      "curl -H 'authorization:BASIC  YWxpY2U=' -H 'Authorization: Basic  YWxpY2U6c2VjcmV0' https://x.test",
      "curl -H 'Authorization: Bearer t' -H 'Authorization: basic YTpiOmM=' https://x.test",
      "curl -H A:1 -H 'B: 2' -H A:1 -H 'Authorization: Token x' https://x.test",
      "curl -H 'Authorization: Bearer t' -u a:b:c https://x.test",
      "curl --user u: -H 'Authorization: Bearer t' https://x.test",
      "curl https://a.test -d https://b.test http://c.test ftp://d.test extra HTTP://E.TEST",
      "curl -d \"it's a\\b\" 'say \"hi\"' a\\b\"c d\"e http://x",
      "curl 'http://x -X POST",
      "curl -X '' POST -H \"\" 'A: 1' -d '' v -u \"\" u:p https://x.test '' --request \"\"" }

CurlArgSeqs == UNION {[1..n -> CurlArgs] : n \in 0..MaxArgs}

CurlInputs == CurlExamples \cup {"curl" \o Join([i \in 1..Len(a) |-> " " \o a[i]], "") : a \in CurlArgSeqs}

\* let input = input.trim(); if !input.starts_with("curl") { return None; } (1591-1594)
PcReject ==
    /\ pc.at = "entry"
    /\ ~StartsWith(Trim(pc.input), "curl")
    /\ pc' = [pc EXCEPT !.at = "done", !.result = None, !.returned = TRUE]
    /\ UNCHANGED <<appVars, sr, js>>

\* the tokenizer (1602-1632)
PcTokenize ==
    /\ pc.at = "entry"
    /\ StartsWith(Trim(pc.input), "curl")
    /\ pc' = [pc EXCEPT !.at = "loop", !.tokens = CurlTokens(Trim(pc.input))]
    /\ UNCHANGED <<appVars, sr, js>>

\* the flag loop stands before a token that takes the given arm
AtArm(arm) ==
    /\ pc.at = "loop"
    /\ pc.i <= Len(pc.tokens)
    /\ ArmOf(pc.tokens[pc.i]) = arm

\* "-X" | "--request" => { ... } (1638-1652)
PcRequest ==
    /\ AtArm("request")
    /\ pc' = CurlStep(pc)
    /\ UNCHANGED <<appVars, sr, js>>

\* "-H" | "--header" => { ... } (1653-1691)
PcHeader ==
    /\ AtArm("header")
    /\ pc' = CurlStep(pc)
    /\ UNCHANGED <<appVars, sr, js>>

\* "-d" | "--data" | "--data-raw" | "--data-binary" => { ... } (1692-1700)
PcData ==
    /\ AtArm("data")
    /\ pc' = CurlStep(pc)
    /\ UNCHANGED <<appVars, sr, js>>

\* "-u" | "--user" => { ... } (1701-1714)
PcUser ==
    /\ AtArm("user")
    /\ pc' = CurlStep(pc)
    /\ UNCHANGED <<appVars, sr, js>>

\* s if s.starts_with("http://") || s.starts_with("https://") => { ... } (1715-1717)
PcUrl ==
    /\ AtArm("url")
    /\ pc' = CurlStep(pc)
    /\ UNCHANGED <<appVars, sr, js>>

\* _ => {} (1718)
PcOther ==
    /\ AtArm("other")
    /\ pc' = CurlStep(pc)
    /\ UNCHANGED <<appVars, sr, js>>

\* if url.is_empty() { return None; } Some(ParsedCurl { ... }) (1723-1733)
PcReturn ==
    /\ pc.at = "loop"
    /\ pc.i > Len(pc.tokens)
    /\ pc' = [pc EXCEPT !.at = "done", !.result = CurlResult(pc), !.returned = TRUE]
    /\ UNCHANGED <<appVars, sr, js>>

InitCurl ==
    /\ AppDefault
    /\ sr = Idle
    /\ js = Idle
    /\ \E input \in CurlInputs : pc = CurlFrame(input)

NextCurl ==
    \/ PcReject \/ PcTokenize
    \/ PcRequest \/ PcHeader \/ PcData \/ PcUser \/ PcUrl \/ PcOther
    \/ PcReturn

SpecCurl == InitCurl /\ [][NextCurl]_vars

(***************************************************************************)
(* App::update (src/src/main.rs:265-406)                                   *)
(***************************************************************************)
\* most Send messages the model processes
MaxSends == 2

\* what the user types and selects
AppUrls == {"https://x.test/a"}

AppMethods == {"GET", "POST"}

AppCurlInputs == {"curl -X PUT https://i.test -d v", "not a curl command"}

\* what load_history() (1560-1569) can find in the store
LoadableHistories ==
    { <<>>, <<[method |-> "POST", url |-> "https://x.test/a", status |-> 404]>> }

AppStatuses == {200}

\* Message::UrlChanged(url) (267)
UrlChanged ==
    /\ \E u \in AppUrls : url' = u
    /\ UNCHANGED <<method, request_body, request_headers, query_params,
                   response, loading, error, history,
                   auth_type, auth_token, auth_username, auth_password,
                   show_curl_import, curl_input, tasks, issued, sr, pc, js>>

\* Message::MethodSelected(method) (268)
MethodSelected ==
    /\ \E m \in AppMethods : method' = m
    /\ UNCHANGED <<url, request_body, request_headers, query_params,
                   response, loading, error, history,
                   auth_type, auth_token, auth_username, auth_password,
                   show_curl_import, curl_input, tasks, issued, sr, pc, js>>

\* Message::ToggleCurlImport (278)
ToggleCurlImport ==
    /\ show_curl_import' = ~show_curl_import
    /\ UNCHANGED <<url, method, request_body, request_headers, query_params,
                   response, loading, error, history,
                   auth_type, auth_token, auth_username, auth_password,
                   curl_input, tasks, issued, sr, pc, js>>

\* Message::CurlInputChanged(input) (279); the field is in the import panel
CurlInputChanged ==
    /\ show_curl_import
    /\ \E input \in AppCurlInputs : curl_input' = input
    /\ UNCHANGED <<url, method, request_body, request_headers, query_params,
                   response, loading, error, history,
                   auth_type, auth_token, auth_username, auth_password,
                   show_curl_import, tasks, issued, sr, pc, js>>

\* command lines for the import panel: one that gives only a URL, one that
\* gives every field, one that gives only an auth, one that gives only
\* headers, and two that parse_curl rejects
ImportInputs ==
    { "curl https://j.test",
      "curl -X DELETE https://j.test -H 'A: 1' -d body -u u:p",
      "curl -H 'Authorization: Bearer t' https://j.test",
      "curl -u nocolon -H X:1 https://j.test",
      "curl -X POST -d x -u u:p",
      "wget https://j.test" }

\* parse_curl on the texts curl_input can hold
AppParsed == [input \in AppCurlInputs \cup ImportInputs \cup {""} |-> ParseCurl(input)]

\* ImportCurl taking the headers and the body of the result even when empty
ImportCurl_OverwriteAll ==
    /\ show_curl_import
    /\ \E parsed \in {AppParsed[curl_input]} :
           IF parsed # None THEN
               /\ url' = parsed[1].url
               /\ method' = parsed[1].method
               /\ request_headers' = parsed[1].headers
               /\ request_body' = parsed[1].body
               /\ IF parsed[1].auth # None THEN
                      /\ auth_type' = parsed[1].auth[1][1]
                      /\ auth_token' = parsed[1].auth[1][2]
                      /\ auth_username' = parsed[1].auth[1][3]
                      /\ auth_password' = parsed[1].auth[1][4]
                  ELSE UNCHANGED <<auth_type, auth_token, auth_username, auth_password>>
           ELSE UNCHANGED <<url, method, request_headers, request_body,
                            auth_type, auth_token, auth_username, auth_password>>
    /\ show_curl_import' = FALSE
    /\ curl_input' = ""
    /\ UNCHANGED <<query_params, response, loading, error, history,
                   tasks, issued, sr, pc, js>>

\* Message::ImportCurl (280-299); the button is in the import panel
ImportCurl ==
    /\ show_curl_import
    /\ \E parsed \in {AppParsed[curl_input]} :
           IF parsed # None THEN
               /\ url' = parsed[1].url
               /\ method' = parsed[1].method
               /\ request_headers' = IF parsed[1].headers # ""
                                     THEN parsed[1].headers ELSE request_headers
               /\ request_body' = IF parsed[1].body # ""
                                  THEN parsed[1].body ELSE request_body
               /\ IF parsed[1].auth # None THEN
                      /\ auth_type' = parsed[1].auth[1][1]
                      /\ auth_token' = parsed[1].auth[1][2]
                      /\ auth_username' = parsed[1].auth[1][3]
                      /\ auth_password' = parsed[1].auth[1][4]
                  ELSE UNCHANGED <<auth_type, auth_token, auth_username, auth_password>>
           ELSE UNCHANGED <<url, method, request_headers, request_body,
                            auth_type, auth_token, auth_username, auth_password>>
    /\ show_curl_import' = FALSE
    /\ curl_input' = ""
    /\ UNCHANGED <<query_params, response, loading, error, history,
                   tasks, issued, sr, pc, js>>

\* BuildUrl appending after "?" whatever the URL holds
BuildUrl_AlwaysQuestionMark(u, params) ==
    IF Trim(params) = "" THEN u
    ELSE LET param_pairs == SelectSeq(Lines(params),
                                LAMBDA l : Trim(l) # "" /\ ContainsChar(l, "="))
         IN  IF Len(param_pairs) = 0 THEN u
             ELSE u \o "?" \o Join(param_pairs, "&")

\* the URL Send builds from self.url and the query parameter lines (303-315)
BuildUrl(u, params) ==
    IF Trim(params) = "" THEN u
    ELSE LET param_pairs == SelectSeq(Lines(params),
                                LAMBDA l : Trim(l) # "" /\ ContainsChar(l, "="))
         IN  IF Len(param_pairs) = 0 THEN u
             ELSE u \o (IF ContainsChar(u, "?") THEN "&" ELSE "?")
                    \o Join(param_pairs, "&")

\* Message::Send (300-329): the keyboard shortcut (240-249) and the URL field's
\* on_submit (724) deliver it in every state, the button (760) when not loading
Send ==
    /\ issued < MaxSends
    /\ loading' = TRUE
    /\ error' = None
    /\ issued' = issued + 1
    /\ tasks' = tasks \cup
          {[ id |-> issued + 1,
             request |-> BuildRequest(BuildUrl(url, query_params), method,
                             request_body, request_headers, auth_type,
                             auth_token, auth_username, auth_password) ]}
    /\ UNCHANGED <<url, method, request_body, request_headers, query_params,
                   response, history,
                   auth_type, auth_token, auth_username, auth_password,
                   show_curl_import, curl_input, sr, pc, js>>

\* what send_request can return once it has built the request of task t
SendResults(t) ==
    {[ok |-> FALSE, err |-> "error sending request"]}
    \cup (IF t.request.err THEN {}
          ELSE {[ok |-> TRUE,
                 response |-> [status |-> st,
                               status_text |-> CanonicalReason(st),
                               headers |-> RespHeaders,
                               body |-> "{\"a\":1}",
                               duration |-> 1,
                               size |-> Len("{\"a\":1}")]] : st \in AppStatuses})

\* HistoryPush keeping the newest entry first
HistoryPush_Front(h, entry) == <<entry>> \o h

\* self.history.push(HistoryEntry { ... }); save_history(&self.history) (334-339)
HistoryPush(h, entry) == Append(h, entry)

\* ResponseReceived issuing a failed request again
ResponseReceived_RetryOnError(t, result) ==
    /\ t \in tasks
    /\ result \in SendResults(t)
    /\ tasks' = IF result.ok THEN tasks \ {t} ELSE tasks
    /\ loading' = FALSE
    /\ IF result.ok THEN
           /\ history' = HistoryPush(history, [method |-> method, url |-> url,
                                               status |-> result.response.status])
           /\ response' = Some(result.response)
           /\ error' = None
       ELSE
           /\ error' = Some(result.err)
           /\ response' = None
           /\ UNCHANGED history
    /\ UNCHANGED <<url, method, request_body, request_headers, query_params,
                   auth_type, auth_token, auth_username, auth_password,
                   show_curl_import, curl_input, issued, sr, pc, js>>

\* ResponseReceived keeping the held response when an error arrives
ResponseReceived_KeepResponseOnError(t, result) ==
    /\ t \in tasks
    /\ result \in SendResults(t)
    /\ tasks' = tasks \ {t}
    /\ loading' = FALSE
    /\ IF result.ok THEN
           /\ history' = HistoryPush(history, [method |-> method, url |-> url,
                                               status |-> result.response.status])
           /\ response' = Some(result.response)
           /\ error' = None
       ELSE
           /\ error' = Some(result.err)
           /\ UNCHANGED <<response, history>>
    /\ UNCHANGED <<url, method, request_body, request_headers, query_params,
                   auth_type, auth_token, auth_username, auth_password,
                   show_curl_import, curl_input, issued, sr, pc, js>>

\* Message::ResponseReceived(result) (330-348) for the future t, which resolved
\* with result
ResponseReceived(t, result) ==
    /\ t \in tasks
    /\ result \in SendResults(t)
    /\ tasks' = tasks \ {t}
    /\ loading' = FALSE
    /\ IF result.ok THEN
           /\ history' = HistoryPush(history, [method |-> method, url |-> url,
                                               status |-> result.response.status])
           /\ response' = Some(result.response)
           /\ error' = None
       ELSE
           /\ error' = Some(result.err)
           /\ response' = None
           /\ UNCHANGED history
    /\ UNCHANGED <<url, method, request_body, request_headers, query_params,
                   auth_type, auth_token, auth_username, auth_password,
                   show_curl_import, curl_input, issued, sr, pc, js>>

ResponseReceivedOk ==
    \E t \in tasks : \E result \in SendResults(t) :
        result.ok /\ ResponseReceived(t, result)

ResponseReceivedErr ==
    \E t \in tasks : \E result \in SendResults(t) :
        ~result.ok /\ ResponseReceived(t, result)

\* Message::HistoryEntryClicked(index) (349-354), index counted from 1
HistoryEntryClicked ==
    /\ \E index \in 1..Len(history) :
          /\ url' = history[index].url
          /\ method' = history[index].method
    /\ UNCHANGED <<request_body, request_headers, query_params,
                   response, loading, error, history,
                   auth_type, auth_token, auth_username, auth_password,
                   show_curl_import, curl_input, tasks, issued, sr, pc, js>>

\* App::boot (232-234): App::default() with the history load_history() returns
InitApp ==
    /\ url = "https://httpbin.org/get"
    /\ method = "GET"
    /\ request_body = ""
    /\ request_headers = "Content-Type: application/json\n"
    /\ query_params = ""
    /\ response = None
    /\ loading = FALSE
    /\ error = None
    /\ history \in LoadableHistories
    /\ auth_type = "None"
    /\ auth_token = ""
    /\ auth_username = ""
    /\ auth_password = ""
    /\ show_curl_import = FALSE
    /\ curl_input = ""
    /\ tasks = {}
    /\ issued = 0
    /\ sr = Idle
    /\ pc = Idle
    /\ js = Idle

NextApp ==
    \/ UrlChanged \/ MethodSelected
    \/ ToggleCurlImport \/ CurlInputChanged \/ ImportCurl
    \/ Send \/ ResponseReceivedOk \/ ResponseReceivedErr
    \/ HistoryEntryClicked

SpecApp == InitApp /\ [][NextApp]_vars

\* the runtime delivers Message::ResponseReceived for the future of the Send
\* numbered id once send_request has returned (Task::perform, 324-329)
Delivered(id) ==
    \E t \in tasks : t.id = id /\ \E result \in SendResults(t) : ResponseReceived(t, result)

\* the messages that issue a request, complete one, or change what a request
\* or a history entry is built from
NextAppLive ==
    \/ UrlChanged \/ MethodSelected
    \/ Send \/ ResponseReceivedOk \/ ResponseReceivedErr
    \/ HistoryEntryClicked

\* the application with a transport that returns in the end: the future of
\* every Send resolves and the runtime delivers its message
SpecAppLive ==
    InitApp /\ [][NextAppLive]_vars /\ \A id \in 1..MaxSends : WF_vars(Delivered(id))

\* The import panel on its own: the request the user has edited before the
\* import (body via RequestBodyChanged, 271; auth via AuthTypeSelected ..
\* AuthPasswordChanged, 274-277) and the text in the panel (279)
ImportBodies == {"", "old body"}

ImportAuths ==
    { <<"None", "", "", "">>, <<"Bearer", "old", "", "">>, <<"Basic", "", "u0", "p0">> }

InitImport ==
    /\ url = "https://httpbin.org/get"
    /\ method = "GET"
    /\ request_body \in ImportBodies
    /\ request_headers = "Content-Type: application/json\n"
    /\ query_params = ""
    /\ response = None
    /\ loading = FALSE
    /\ error = None
    /\ history = <<>>
    /\ \E a \in ImportAuths :
          /\ auth_type = a[1]
          /\ auth_token = a[2]
          /\ auth_username = a[3]
          /\ auth_password = a[4]
    /\ show_curl_import = TRUE
    /\ curl_input \in ImportInputs
    /\ tasks = {}
    /\ issued = 0
    /\ sr = Idle
    /\ pc = Idle
    /\ js = Idle

NextImport == ToggleCurlImport \/ CurlInputChanged \/ ImportCurl

SpecImport == InitImport /\ [][NextImport]_vars

\* The query parameters on their own: the URL (UrlChanged, 267) and the
\* parameter text (QueryParamsChanged, 273) the user has entered before Send
QueryUrls == {"https://x.test/a", "https://x.test/a?k=v", "https://x.test/?"}

QueryParamTexts ==
    { "",
      "a=1\nb=2",
      "a=1\n\nnote\nb=2\n",
      "  \n\t",
      "novalue\n",
      "=",
      " a = 1 \r\nb=c d&e?",
      "b=2\na=1\na=1" }

InitQuery ==
    /\ url \in QueryUrls
    /\ method = "GET"
    /\ request_body = ""
    /\ request_headers = "Content-Type: application/json\n"
    /\ query_params \in QueryParamTexts
    /\ response = None
    /\ loading = FALSE
    /\ error = None
    /\ history = <<>>
    /\ auth_type = "None"
    /\ auth_token = ""
    /\ auth_username = ""
    /\ auth_password = ""
    /\ show_curl_import = FALSE
    /\ curl_input = ""
    /\ tasks = {}
    /\ issued = 0
    /\ sr = Idle
    /\ pc = Idle
    /\ js = Idle

NextQuery == Send \/ ResponseReceivedOk \/ ResponseReceivedErr

SpecQuery == InitQuery /\ [][NextQuery]_vars

(***************************************************************************)
(* format_json (src/src/main.rs:1433-1439): serde_json::from_str into a    *)
(* Value, then serde_json::to_string_pretty.  A parsed value is            *)
(*   [t |-> "num", text]   the number as serde_json prints it              *)
(*   [t |-> "str", text]   the string's content as serde_json escapes it   *)
(*   [t |-> "lit", text]   true, false or null                             *)
(*   [t |-> "arr", items]  [t |-> "obj", members] with <<key, value>>      *)
(***************************************************************************)
Digits == CharsOf("0123456789")

JsonWs == {" ", "\t", "\n", "\r"}

Fail == [ok |-> FALSE]

\* first position from i on that holds no JSON whitespace (Len(s) + 1 if none)
SkipWs(s, i) ==
    LET stop == {j \in i..Len(s) : CharAt(s, j) \notin JsonWs}
    IN  IF stop = {} THEN Len(s) + 1
        ELSE CHOOSE j \in stop : \A k \in stop : j <= k

\* first position from i on that holds no digit
SkipDigits(s, i) ==
    LET stop == {j \in i..Len(s) : CharAt(s, j) \notin Digits}
    IN  IF stop = {} THEN Len(s) + 1
        ELSE CHOOSE j \in stop : \A k \in stop : j <= k

\* digits without their trailing zeros
StripTrailingZeros(d) ==
    LET keep == {j \in 1..Len(d) : CharAt(d, j) # "0"}
    IN  IF keep = {} THEN ""
        ELSE SubSeq(d, 1, CHOOSE j \in keep : \A k \in keep : j >= k)

\* n zeros
RECURSIVE Zeros(_)
Zeros(n) == IF n = 0 THEN "" ELSE "0" \o Zeros(n - 1)

\* a JSON number starting at i: -? (0 | [1-9][0-9]*) (.[0-9]+)? ([eE]+?[0-9])?
\* An integer prints as written (-0 as -0.0), a decimal without the trailing
\* zeros of its fraction.  A number with an exponent is a float: an integer
\* mantissa with an exponent of one digit prints as the integer it denotes
\* followed by .0; a longer or negative exponent, or one after a fraction, is
\* outside the texts the model draws and ends the parse as an error.
JNumber(s, i) ==
    LET neg == CharAt(s, i) = "-"
        a == IF neg THEN i + 1 ELSE i
        b == SkipDigits(s, a)
        intPart == SubSeq(s, a, b - 1)
        hasFrac == CharAt(s, b) = "."
        c == IF hasFrac THEN SkipDigits(s, b + 1) ELSE b
        frac == StripTrailingZeros(SubSeq(s, b + 1, c - 1))
        sign == IF neg THEN "-" ELSE ""
        hasExp == CharAt(s, c) \in {"e", "E"}
        d == IF hasExp /\ CharAt(s, c + 1) = "+" THEN c + 2 ELSE c + 1
        e == SkipDigits(s, d)
    IN  IF intPart = "" \/ (Len(intPart) > 1 /\ CharAt(intPart, 1) = "0") THEN Fail
        ELSE IF hasFrac /\ c = b + 1 THEN Fail
        ELSE IF hasExp THEN
            IF hasFrac \/ e # d + 1 THEN Fail
            ELSE [ok |-> TRUE, i |-> e,
                  v |-> [t |-> "num",
                         text |-> sign \o intPart
                                  \o (IF intPart = "0" THEN ""
                                      ELSE Zeros(FindChar("0123456789", CharAt(s, d)) - 1))
                                  \o ".0"]]
        ELSE [ok |-> TRUE, i |-> c,
              v |-> [t |-> "num",
                     text |-> IF hasFrac
                              THEN sign \o intPart \o "." \o (IF frac = "" THEN "0" ELSE frac)
                              ELSE IF neg /\ intPart = "0" THEN "-0.0"
                              ELSE sign \o intPart]]

\* the content of a JSON string from position i (after the opening quote) on,
\* in the form serde_json writes it back.  A \u escape is outside the texts
\* the model draws and ends the parse as an error, as a raw control character
\* does.
RECURSIVE JString(_, _, _)
JString(s, i, acc) ==
    IF i > Len(s) THEN Fail
    ELSE LET c == CharAt(s, i)
         IN  IF c = "\"" THEN [ok |-> TRUE, i |-> i + 1, v |-> [t |-> "str", text |-> acc]]
             ELSE IF c \in {"\t", "\n", "\r"} THEN Fail
             ELSE IF c = "\\" THEN
                 LET e == CharAt(s, i + 1)
                 IN  IF e \in {"\"", "\\", "b", "f", "n", "r", "t"}
                     THEN JString(s, i + 2, acc \o "\\" \o e)
                     ELSE IF e = "/" THEN JString(s, i + 2, acc \o "/")
                     ELSE Fail
             ELSE JString(s, i + 1, acc \o c)

\* Map::insert: a key already present keeps its place and takes the new value.
\* Keys stay in the order of the source text (spec.md 4.3).
PutMember(members, k, v) ==
    IF \E j \in 1..Len(members) : members[j][1] = k
    THEN [j \in 1..Len(members) |-> IF members[j][1] = k THEN <<k, v>> ELSE members[j]]
    ELSE Append(members, <<k, v>>)

RECURSIVE JValue(_, _)
RECURSIVE JElements(_, _, _)
RECURSIVE JMembers(_, _, _)

\* a JSON value starting at the first non-whitespace position from i0 on
JValue(s, i0) ==
    LET i == SkipWs(s, i0)
        c == CharAt(s, i)
    IN  IF i > Len(s) THEN Fail
        ELSE IF c = "\"" THEN JString(s, i + 1, "")
        ELSE IF c \in Digits \cup {"-"} THEN JNumber(s, i)
        ELSE IF c = "[" THEN
            LET j == SkipWs(s, i + 1)
            IN  IF CharAt(s, j) = "]"
                THEN [ok |-> TRUE, i |-> j + 1, v |-> [t |-> "arr", items |-> <<>>]]
                ELSE JElements(s, j, <<>>)
        ELSE IF c = "{" THEN
            LET j == SkipWs(s, i + 1)
            IN  IF CharAt(s, j) = "}"
                THEN [ok |-> TRUE, i |-> j + 1, v |-> [t |-> "obj", members |-> <<>>]]
                ELSE JMembers(s, j, <<>>)
        ELSE IF \E w \in {"true", "false", "null"} : HasAt(s, i, w) THEN
            LET w == CHOOSE w \in {"true", "false", "null"} : HasAt(s, i, w)
            IN  [ok |-> TRUE, i |-> i + Len(w), v |-> [t |-> "lit", text |-> w]]
        ELSE Fail

\* the elements of an array from position i on, up to its closing bracket
JElements(s, i, acc) ==
    LET r == JValue(s, i)
    IN  IF ~r.ok THEN Fail
        ELSE LET j == SkipWs(s, r.i)
                 items == Append(acc, r.v)
             IN  IF CharAt(s, j) = "," THEN JElements(s, j + 1, items)
                 ELSE IF CharAt(s, j) = "]"
                 THEN [ok |-> TRUE, i |-> j + 1, v |-> [t |-> "arr", items |-> items]]
                 ELSE Fail

\* the members of an object from position i on, up to its closing brace
JMembers(s, i, acc) ==
    LET k0 == SkipWs(s, i)
    IN  IF CharAt(s, k0) # "\"" THEN Fail
        ELSE LET k == JString(s, k0 + 1, "")
             IN  IF ~k.ok THEN Fail
                 ELSE LET colon == SkipWs(s, k.i)
                      IN  IF CharAt(s, colon) # ":" THEN Fail
                          ELSE LET r == JValue(s, colon + 1)
                               IN  IF ~r.ok THEN Fail
                                   ELSE LET j == SkipWs(s, r.i)
                                            members == PutMember(acc, k.v.text, r.v)
                                        IN  IF CharAt(s, j) = "," THEN JMembers(s, j + 1, members)
                                            ELSE IF CharAt(s, j) = "}"
                                            THEN [ok |-> TRUE, i |-> j + 1,
                                                  v |-> [t |-> "obj", members |-> members]]
                                            ELSE Fail

\* serde_json::from_str: one value, then only whitespace
FromStr(s) ==
    LET r == JValue(s, 1)
    IN  IF r.ok /\ SkipWs(s, r.i) > Len(s) THEN r ELSE Fail

RECURSIVE Indent(_)
Indent(n) == IF n = 0 THEN "" ELSE "  " \o Indent(n - 1)

\* serde_json::to_string_pretty (PrettyFormatter, two spaces per level)
RECURSIVE Pretty(_, _)
\* Pretty writing a backslash before every backslash of a string's content,
\* which already holds its escapes
Pretty_EscapeAgain(v, level) ==
    CASE v.t = "num" -> v.text
      [] v.t = "lit" -> v.text
      [] v.t = "str" ->
            "\"" \o Join([j \in 1..Len(v.text) |->
                            IF CharAt(v.text, j) = "\\" THEN "\\\\" ELSE CharAt(v.text, j)], "")
                 \o "\""
      [] v.t = "arr" ->
            IF Len(v.items) = 0 THEN "[]"
            ELSE "[\n"
                 \o Join([j \in 1..Len(v.items) |->
                            Indent(level + 1) \o Pretty(v.items[j], level + 1)], ",\n")
                 \o "\n" \o Indent(level) \o "]"
      [] v.t = "obj" ->
            IF Len(v.members) = 0 THEN "{}"
            ELSE "{\n"
                 \o Join([j \in 1..Len(v.members) |->
                            Indent(level + 1) \o "\"" \o v.members[j][1] \o "\": "
                            \o Pretty(v.members[j][2], level + 1)], ",\n")
                 \o "\n" \o Indent(level) \o "}"

Pretty(v, level) ==
    CASE v.t = "num" -> v.text
      [] v.t = "lit" -> v.text
      [] v.t = "str" -> "\"" \o v.text \o "\""
      [] v.t = "arr" ->
            IF Len(v.items) = 0 THEN "[]"
            ELSE "[\n"
                 \o Join([j \in 1..Len(v.items) |->
                            Indent(level + 1) \o Pretty(v.items[j], level + 1)], ",\n")
                 \o "\n" \o Indent(level) \o "]"
      [] v.t = "obj" ->
            IF Len(v.members) = 0 THEN "{}"
            ELSE "{\n"
                 \o Join([j \in 1..Len(v.members) |->
                            Indent(level + 1) \o "\"" \o v.members[j][1] \o "\": "
                            \o Pretty(v.members[j][2], level + 1)], ",\n")
                 \o "\n" \o Indent(level) \o "}"

\* format_json giving back the text without its surrounding whitespace when
\* it does not parse
format_json_TrimOnFailure(s) ==
    LET r == FromStr(s)
    IN  IF r.ok THEN Pretty(r.v, 0) ELSE Trim(s)

format_json(s) ==
    LET r == FromStr(s)
    IN  IF r.ok THEN Pretty(r.v, 0) ELSE s

(***************************************************************************)
(* json_to_spans (src/src/main.rs:1441-1544).  A span is [text, style];    *)
(* the style names the colour: key (ACCENT_PURPLE), string (SUCCESS),      *)
(* number (ACCENT_CORAL), keyword (WARNING), punctuation (TEXT_SECONDARY), *)
(* plain (TEXT_PRIMARY).  js.pos is the position chars.next() reads next.  *)
(***************************************************************************)
\* StringEnd stopping at the first quote, after a backslash or not
StringEnd_AnyQuote(f, i) ==
    LET quotes == {q \in i..Len(f) : CharAt(f, q) = "\""}
    IN  IF quotes = {} THEN Len(f) ELSE CHOOSE q \in quotes : \A k \in quotes : q <= k

\* while let Some(c) = chars.next() { ... } of a string (1457-1467): the
\* position of the last character taken, reading from position i on
RECURSIVE StringEnd(_, _)
StringEnd(f, i) ==
    IF i > Len(f) THEN Len(f)
    ELSE IF CharAt(f, i) = "\"" THEN i
    ELSE IF CharAt(f, i) = "\\" THEN
        IF i + 1 > Len(f) THEN Len(f) ELSE StringEnd(f, i + 2)
    ELSE StringEnd(f, i + 1)

\* the lookahead on a clone of the iterator (1469-1477), from position i on
IsKey(f, i) ==
    LET stop == {j \in i..Len(f) : CharAt(f, j) \notin WhiteSpace}
    IN  stop # {} /\ CharAt(f, CHOOSE j \in stop : \A k \in stop : j <= k) = ":"

NumberChars == Digits \cup {".", "e", "E", "+", "-"}

\* while let Some(&next) = chars.peek() { ... } (1490-1496): the position of
\* the last character of the number that starts at position i
NumberEnd(f, i) ==
    LET stop == {j \in (i + 1)..Len(f) : CharAt(f, j) \notin NumberChars}
    IN  IF stop = {} THEN Len(f)
        ELSE (CHOOSE j \in stop : \A k \in stop : j <= k) - 1

\* match ch { 't' => "rue", 'f' => "alse", 'n' => "ull" } (1504-1509)
Expected(ch) ==
    CASE ch = "t" -> "rue"
      [] ch = "f" -> "alse"
      [] ch = "n" -> "ull"
      [] OTHER -> ""

\* for expected_char in expected.chars() { ... } (1510-1516): how many of the
\* expected characters stand at position i and after it
RECURSIVE Matched(_, _, _)
Matched(f, i, expected) ==
    IF expected # "" /\ CharAt(f, i) = CharAt(expected, 1)
    THEN 1 + Matched(f, i + 1, SubSeq(expected, 2, Len(expected)))
    ELSE 0

Punctuation == {"{", "}", "[", "]", ":", ","}

\* Flush that drops the pending text
Flush_Drop(spans, current) == spans

\* if !current.is_empty() { spans.push(span(take(&mut current))) } (1451-1453)
Flush(spans, current) ==
    IF current # "" THEN Append(spans, [text |-> current, style |-> "plain"]) ELSE spans

\* which arm of match ch { ... } (1448-1532) takes a character
JsArmOf(ch) ==
    CASE ch = "\"" -> "string"
      [] ch \in Digits \cup {"-"} -> "number"
      [] ch \in {"t", "f", "n"} -> "keyword"
      [] ch \in Punctuation -> "punctuation"
      [] OTHER -> "plain"

\* one iteration of while let Some(ch) = chars.next() (1447-1533)
JsStep(j) ==
    LET f == j.formatted
        p == j.pos
        ch == CharAt(f, p)
        arm == JsArmOf(ch)
    IN  CASE arm = "string" ->
               LET e == StringEnd(f, p + 1)
               IN  [j EXCEPT !.pos = e + 1, !.current = "",
                             !.spans = Append(Flush(j.spans, j.current),
                                 [text |-> SubSeq(f, p, e),
                                  style |-> IF IsKey(f, e + 1) THEN "key" ELSE "string"])]
          [] arm = "number" ->
               LET e == NumberEnd(f, p)
               IN  [j EXCEPT !.pos = e + 1, !.current = "",
                             !.spans = Append(Flush(j.spans, j.current),
                                 [text |-> SubSeq(f, p, e), style |-> "number"])]
          [] arm = "keyword" ->
               LET keyword == SubSeq(f, p, p + Matched(f, p + 1, Expected(ch)))
               IN  [j EXCEPT !.pos = p + Len(keyword), !.current = "",
                             !.spans = Append(Flush(j.spans, j.current),
                                 [text |-> keyword,
                                  style |-> IF keyword \in {"true", "false", "null"}
                                            THEN "keyword" ELSE "plain"])]
          [] arm = "punctuation" ->
               [j EXCEPT !.pos = p + 1, !.current = "",
                         !.spans = Append(Flush(j.spans, j.current),
                                          [text |-> ch, style |-> "punctuation"])]
          [] OTHER ->
               [j EXCEPT !.pos = p + 1, !.current = @ \o ch]

\* the frame at the call
JsFrame(s) ==
    [at |-> "entry", s |-> s, formatted |-> "", pos |-> 1, current |-> "", spans |-> <<>>]

\* the pieces the model builds response texts from
JsPieces == {"\"", "\\", ":", " ", "1", "[", "]", "x", "tr", "true"}

\* most pieces in a built text
MaxPieces == 4

\* texts given whole
JsExamples ==
    { "{\"a\":1}",
      "{\"k\" : [1, -2.50, true, false, null], \"s\": \"a\\\"b\"}",
      "xtz",
      "truefalsenull nul fals tx",
      "{}[],:",
      "-1e+5-.E",
      "\"a\\\"b\" \n\t: \"c\\",
      "\"unterminated",
      "[1,]",
      " {\"b\": 1.50, \"a\": [ ], \"b\": \"x\\/y\", \"c\": [-0, 2E+3, {}]}\n",
      "[\"a\\\\\", [[0e5, -7.0, null]], \"\\n\"]" }

JsPieceSeqs == UNION {[1..n -> JsPieces] : n \in 0..MaxPieces}

JsInputs == JsExamples \cup {Join(a, "") : a \in JsPieceSeqs}

\* let formatted = format_json(s); (1442-1445)
JsFormat ==
    /\ js.at = "entry"
    /\ js' = [js EXCEPT !.at = "scan", !.formatted = format_json(js.s)]
    /\ UNCHANGED <<appVars, sr, pc>>

\* the scan stands before a character that takes the given arm
AtJsArm(arm) ==
    /\ js.at = "scan"
    /\ js.pos <= Len(js.formatted)
    /\ JsArmOf(CharAt(js.formatted, js.pos)) = arm

\* '"' => { ... } (1449-1484)
JsString ==
    /\ AtJsArm("string")
    /\ js' = JsStep(js)
    /\ UNCHANGED <<appVars, sr, pc>>

\* c if c.is_ascii_digit() || c == '-' => { ... } (1485-1498)
JsNumber ==
    /\ AtJsArm("number")
    /\ js' = JsStep(js)
    /\ UNCHANGED <<appVars, sr, pc>>

\* 't' | 'f' | 'n' => { ... } (1499-1522)
JsKeyword ==
    /\ AtJsArm("keyword")
    /\ js' = JsStep(js)
    /\ UNCHANGED <<appVars, sr, pc>>

\* '{' | '}' | '[' | ']' | ':' | ',' => { ... } (1523-1528)
JsPunctuation ==
    /\ AtJsArm("punctuation")
    /\ js' = JsStep(js)
    /\ UNCHANGED <<appVars, sr, pc>>

\* _ => { current.push(ch); } (1529-1531)
JsPlain ==
    /\ AtJsArm("plain")
    /\ js' = JsStep(js)
    /\ UNCHANGED <<appVars, sr, pc>>

\* JsFinish adding the fallback span whatever the scan produced
JsFinish_AlwaysFallback ==
    /\ js.at = "scan"
    /\ js.pos > Len(js.formatted)
    /\ js' = [js EXCEPT !.at = "done", !.current = "",
                        !.spans = Append(Flush(js.spans, js.current),
                                         [text |-> js.s, style |-> "plain"])]
    /\ UNCHANGED <<appVars, sr, pc>>

\* the flush after the loop and the fallback span (1535-1543)
JsFinish ==
    /\ js.at = "scan"
    /\ js.pos > Len(js.formatted)
    /\ LET flushed == Flush(js.spans, js.current)
       IN  js' = [js EXCEPT !.at = "done", !.current = "",
                            !.spans = IF Len(flushed) = 0
                                      THEN <<[text |-> js.s, style |-> "plain"]>>
                                      ELSE flushed]
    /\ UNCHANGED <<appVars, sr, pc>>

InitSpans ==
    /\ AppDefault
    /\ sr = Idle
    /\ pc = Idle
    /\ \E s \in JsInputs : js = JsFrame(s)

NextSpans ==
    \/ JsFormat
    \/ JsString \/ JsNumber \/ JsKeyword \/ JsPunctuation \/ JsPlain
    \/ JsFinish

SpecSpans == InitSpans /\ [][NextSpans]_vars

(***************************************************************************)
(* Properties                                                              *)
(***************************************************************************)
\* the texts of spans, concatenated in order
RECURSIVE SpanText(_)
SpanText(spans) ==
    IF Len(spans) = 0 THEN "" ELSE spans[1].text \o SpanText(Tail(spans))

\* the <<name, value>> pairs of the lines of a header text that hold a colon
HeaderPairs(headers_str) ==
    LET withColon == SelectSeq(Lines(headers_str), LAMBDA l : ContainsChar(l, ":"))
    IN  [k \in 1..Len(withColon) |->
            <<Trim(SubSeq(withColon[k], 1, FindChar(withColon[k], ":") - 1)),
              Trim(SubSeq(withColon[k], FindChar(withColon[k], ":") + 1, Len(withColon[k])))>>]

\* the Authorization value synthesized from the auth arguments of send_request
SynthesizedAuth ==
    IF sr.auth_type = "Bearer" THEN "Bearer " \o sr.auth_token
    ELSE "Basic " \o B64Encode(Bytes(sr.auth_username \o ":" \o sr.auth_password))

\* C1: the request send_request transmits carries a body exactly when the
\* method is POST, PUT or PATCH and the body text is non-empty, and the body it
\* carries is the given text; GET, HEAD, DELETE and OPTIONS never carry one.
C1_BodyAttachment ==
    sr.wire # None =>
        LET carries == sr.wire[1].body # None
        IN  /\ carries <=> (sr.method \in {"POST", "PUT", "PATCH"} /\ sr.body # "")
            /\ carries => sr.wire[1].body = Some(sr.body)
            /\ sr.method \in {"GET", "HEAD", "DELETE", "OPTIONS"} => ~carries

C1_Witness ==
    /\ sr.wire # None
    /\ sr.method = "PATCH"
    /\ sr.auth_type = "Bearer"
    /\ sr.wire[1].body = Some("{\"a\":1}")

\* C2: when json_to_spans returns, the texts of its spans, concatenated in
\* order, are the text it scanned, format_json of its input.
C2_RoundTrip == js.at = "done" => SpanText(js.spans) = format_json(js.s)

C2_Witness ==
    /\ js.at = "done"
    /\ js.s = "\"tr\\"
    /\ Len(js.spans) = 1
    /\ js.spans[1].text = js.s

\* C3 as stated: whenever the auth variant is Bearer or Basic, the transmitted
\* request starts with one synthesized Authorization header, followed by the
\* headers of the user's lines, for every token, username and password.
C3_AuthAlwaysSynthesized ==
    (sr.wire # None /\ sr.auth_type # "None") =>
        sr.wire[1].headers = <<<<"Authorization", SynthesizedAuth>>>> \o HeaderPairs(sr.headers_str)

\* C3 as amended: the transmitted request starts with one synthesized
\* Authorization header, followed by the headers of the user's lines, when the
\* auth variant is Bearer with a non-empty token or Basic with a non-empty
\* username; otherwise it carries the headers of the user's lines only.
C3_AuthSynthesizedWhenNonEmpty ==
    sr.wire # None =>
        LET synthesized == \/ sr.auth_type = "Bearer" /\ sr.auth_token # ""
                           \/ sr.auth_type = "Basic" /\ sr.auth_username # ""
        IN  sr.wire[1].headers =
                (IF synthesized THEN <<<<"Authorization", SynthesizedAuth>>>> ELSE <<>>)
                    \o HeaderPairs(sr.headers_str)

C3_Witness ==
    /\ sr.wire # None
    /\ sr.auth_type = "Basic"
    /\ sr.wire[1].headers =
          << <<"Authorization", "Basic YWxpY2U6c2VjcmV0">>,
             <<"Authorization", "mine">>, <<"X-A", "1">>, <<"X-A", "2">> >>

\* whether event a stands before event b in the steps send_request has taken
Precedes(a, b) ==
    \E i, j \in 1..Len(sr.events) :
        i < j /\ sr.events[i] = a /\ sr.events[j] = b

\* C4: in every execution of send_request the elapsed time is captured only
\* after the body has been read, and the start time is captured before the
\* request is constructed.
C4_DurationAfterBodyRead ==
    /\ (\E i \in 1..Len(sr.events) : sr.events[i] = "elapsed") => Precedes("body_read", "elapsed")
    /\ (\E i \in 1..Len(sr.events) : sr.events[i] = "build") => Precedes("start", "build")

\* whether the scan of parse_curl took the arm a for a token (with a value
\* after it, for a flag)
TookArm(a) ==
    \E k \in 1..Len(pc.arms) :
        pc.arms[k].arm = a /\ (a \in {"url", "other"} \/ pc.arms[k].value)

\* C5: parse_curl returns a result only when the first token of the trimmed
\* text is the token curl and the scan found a URL token.
C5_ResultNeedsCurlTokenAndUrl ==
    (pc.at = "done" /\ pc.result # None) =>
        /\ LET ts == CurlTokens(Trim(pc.input)) IN Len(ts) > 0 /\ ts[1] = "curl"
        /\ TookArm("url")

\* C6: while a request is in flight the application holds no Response.
C6_NoResponseWhileInFlight == tasks # {} => response = None

\* C7: ResponseReceived(Ok) appends exactly one entry at the end of the
\* history, and no other message changes the history.
C7_HistoryAppendOnly ==
    [][ /\ ResponseReceivedOk =>
              /\ Len(history') = Len(history) + 1
              /\ SubSeq(history', 1, Len(history)) = history
        /\ ~ResponseReceivedOk => history' = history ]_vars

C7_Witness ==
    /\ Len(history) = 3
    /\ history[1] = [method |-> "POST", url |-> "https://x.test/a", status |-> 404]
    /\ history[2].url # history[3].url
    /\ tasks = {}

\* a step of the scan that takes the arm a for a flag followed by a value
FlagStep(a) ==
    /\ pc.at = "loop"
    /\ pc'.at = "loop"
    /\ pc.i + 1 <= Len(pc.tokens)
    /\ ArmOf(pc.tokens[pc.i]) = a
    /\ pc'.i = pc.i + 2

\* C8: a data flag with a value sets the body to the value, and promotes the
\* method to POST only if no earlier -X/--request has set it.
C8_DataPromotesOnlyUnsetMethod ==
    [][ FlagStep("data") =>
            /\ pc'.body = pc.tokens[pc.i + 1]
            /\ pc'.method = IF TookArm("request") THEN pc.method ELSE "POST" ]_vars

\* the verb a value names, by exact match in any letter case, else GET
ExactVerb(v) == IF ToUppercase(v) \in Methods THEN ToUppercase(v) ELSE "GET"

\* the value of the last -X/--request flag the scan took
LastRequestValue ==
    LET ks == {k \in 1..Len(pc.arms) : pc.arms[k].arm = "request" /\ pc.arms[k].value}
        last == CHOOSE k \in ks : \A m \in ks : m <= k
    IN  pc.tokens[pc.arms[last].at + 1]

\* C9: -X/--request with a value sets the method to the verb the value names
\* in any letter case, GET for any other value; in a command without a data
\* flag the returned method is that of the last -X, and GET when there is none.
C9_RequestFlagSetsVerb ==
    /\ [][ FlagStep("request") => pc'.method = ExactVerb(pc.tokens[pc.i + 1]) ]_vars
    /\ []( (pc.at = "done" /\ pc.result # None /\ ~TookArm("data")) =>
              pc.result[1].method =
                  IF TookArm("request") THEN ExactVerb(LastRequestValue) ELSE "GET" )

C9_Witness ==
    /\ pc.at = "done"
    /\ pc.input = "curl -X post -X Put https://x.test"
    /\ pc.result # None
    /\ pc.result[1].method = "PUT"

\* whether a -H value names the Authorization header, in any letter case, with
\* a value that starts with "Bearer " in any letter case
IsBearerHeader(h) ==
    /\ ContainsChar(h, ":")
    /\ ToLowercase(SubSeq(h, 1, FindChar(h, ":") - 1)) = "authorization"
    /\ LET value == Trim(SubSeq(h, FindChar(h, ":") + 1, Len(h)))
       IN  Len(value) >= 7 /\ ToLowercase(SubSeq(value, 1, 7)) = "bearer "

BearerExample ==
    "curl -X POST https://api.example.com/x -H \"Authorization: Bearer abc123\" -d '{\"a\":1}'"

\* C10: an Authorization header whose (trimmed) value starts with "Bearer ",
\* both in any letter case, yields Bearer auth with the rest of the value as
\* token and is not added to the headers; the example command yields POST, its
\* URL, Bearer(abc123) and its body.
C10_BearerHeaderYieldsAuth ==
    /\ [][ (FlagStep("header") /\ IsBearerHeader(pc.tokens[pc.i + 1])) =>
              LET h == pc.tokens[pc.i + 1]
                  value == Trim(SubSeq(h, FindChar(h, ":") + 1, Len(h)))
              IN  /\ pc'.auth = Some(<<"Bearer", SubSeq(value, 8, Len(value)), "", "">>)
                  /\ pc'.headers = pc.headers ]_vars
    /\ []( (pc.at = "done" /\ pc.input = BearerExample) =>
              pc.result = Some([url |-> "https://api.example.com/x", method |-> "POST",
                                headers |-> "", body |-> "{\"a\":1}",
                                auth |-> Some(<<"Bearer", "abc123", "", "">>)]) )

C10_Witness ==
    /\ pc.at = "done"
    /\ pc.input = "curl -H 'Authorization:bearer  t k ' -H 'Authorization: Bearer ' --header Accept:*/* http://x.test"
    /\ pc.result # None
    /\ pc.result[1].auth = Some(<<"Bearer", " t k", "", "">>)
    /\ pc.result[1].headers = "Authorization: Bearer \nAccept:*/*"

\* the value of a -H token: the text after its first colon, trimmed
AuthValue(h) == Trim(SubSeq(h, FindChar(h, ":") + 1, Len(h)))

\* whether a -H value names the Authorization header, in any letter case, with
\* a value that starts with "Basic " in any letter case
IsBasicHeader(h) ==
    /\ ContainsChar(h, ":")
    /\ ToLowercase(SubSeq(h, 1, FindChar(h, ":") - 1)) = "authorization"
    /\ Len(AuthValue(h)) >= 6
    /\ ToLowercase(SubSeq(AuthValue(h), 1, 6)) = "basic "

\* the <<username, password>> a base64 text stands for: None when it does not
\* decode, when the bytes are not text, or when the text holds no colon
BasicCreds(b64) ==
    LET decoded == B64Decode(b64)
        text == IF decoded = None THEN None ELSE FromUtf8(decoded[1])
    IN  IF text = None THEN None ELSE SplitOnce(text[1], ":")

\* C11 as stated: a -H step for an Authorization header with a Basic value
\* decodes the remainder of the value as it stands; it yields Basic auth with
\* the text before and after the first colon, or leaves the auth as it was,
\* and never adds the header to the headers.
C11_BasicDecodesRemainder ==
    [][ (FlagStep("header") /\ IsBasicHeader(pc.tokens[pc.i + 1])) =>
          LET value == AuthValue(pc.tokens[pc.i + 1])
              up == BasicCreds(SubSeq(value, 7, Len(value)))
          IN  /\ pc'.headers = pc.headers
              /\ pc'.auth = IF up = None THEN pc.auth
                            ELSE Some(<<"Basic", "", up[1][1], up[1][2]>>) ]_vars

\* C11 as amended: the same, with the remainder of the value trimmed of
\* surrounding whitespace before it is decoded; a pair the step yields encodes
\* back to the trimmed remainder.
C11_BasicDecodesTrimmedRemainder ==
    [][ (FlagStep("header") /\ IsBasicHeader(pc.tokens[pc.i + 1])) =>
          LET value == AuthValue(pc.tokens[pc.i + 1])
              rest == Trim(SubSeq(value, 7, Len(value)))
              up == BasicCreds(rest)
          IN  /\ pc'.headers = pc.headers
              /\ pc'.auth = IF up = None THEN pc.auth
                            ELSE Some(<<"Basic", "", up[1][1], up[1][2]>>)
              /\ up # None =>
                    /\ ~ContainsChar(up[1][1], ":")
                    /\ B64Encode(Bytes(up[1][1] \o ":" \o up[1][2])) = rest ]_vars

C11_Witness ==
    /\ pc.at = "done"
    /\ pc.input = "curl -u a:b -H 'Authorization: Basic /w==' https://x.test"
    /\ pc.result # None
    /\ pc.result[1].auth = Some(<<"Basic", "", "a", "b">>)
    /\ pc.result[1].headers = ""

\* the values of the -H/--header flags the scan has taken, in order
HeaderValues ==
    LET hs == SelectSeq(pc.arms, LAMBDA a : a.arm = "header" /\ a.value)
    IN  [k \in 1..Len(hs) |-> pc.tokens[hs[k].at + 1]]

\* those of them that are not an Authorization header with a Bearer or a Basic
\* value
KeptHeaders ==
    SelectSeq(HeaderValues, LAMBDA h : ~IsBearerHeader(h) /\ ~IsBasicHeader(h))

\* C12: throughout the scan the headers accumulator holds, verbatim and in
\* order of appearance, the -H/--header values that are not an Authorization
\* header with a Bearer or Basic value, duplicates included; the returned
\* headers text is these values joined by newlines.
C12_OtherHeadersKeptInOrder ==
    /\ pc.at \in {"loop", "done"} => pc.headers = KeptHeaders
    /\ (pc.at = "done" /\ pc.result # None) =>
            pc.result[1].headers = Join(KeptHeaders, "\n")

C12_Witness ==
    /\ pc.at = "done"
    /\ pc.input = "curl -H A:1 -H 'B: 2' -H A:1 -H 'Authorization: Token x' https://x.test"
    /\ pc.result # None
    /\ pc.result[1].headers = "A:1\nB: 2\nA:1\nAuthorization: Token x"
    /\ pc.result[1].auth = None

\* the auth a -u/--user value stands for: None without a colon
UserAuth(v) ==
    IF ContainsChar(v, ":")
    THEN Some(<<"Basic", "", SubSeq(v, 1, FindChar(v, ":") - 1),
                SubSeq(v, FindChar(v, ":") + 1, Len(v))>>)
    ELSE None

\* the auth a -H/--header value stands for: None when it sets none
HeaderAuth(h) ==
    IF IsBearerHeader(h) THEN Some(<<"Bearer", SubSeq(AuthValue(h), 8, Len(AuthValue(h))), "", "">>)
    ELSE IF IsBasicHeader(h) THEN
        LET up == BasicCreds(Trim(SubSeq(AuthValue(h), 7, Len(AuthValue(h)))))
        IN  IF up = None THEN None ELSE Some(<<"Basic", "", up[1][1], up[1][2]>>)
    ELSE None

\* the auth the k-th iteration of the scan stands for
AuthOfArm(k) ==
    IF ~pc.arms[k].value THEN None
    ELSE IF pc.arms[k].arm = "user" THEN UserAuth(pc.tokens[pc.arms[k].at + 1])
    ELSE IF pc.arms[k].arm = "header" THEN HeaderAuth(pc.tokens[pc.arms[k].at + 1])
    ELSE None

\* the auth of the last flag of the scan so far that stands for one
LatestAuth ==
    LET ks == {k \in 1..Len(pc.arms) : AuthOfArm(k) # None}
    IN  IF ks = {} THEN None
        ELSE AuthOfArm(CHOOSE k \in ks : \A m \in ks : m <= k)

\* C13: -u/--user with a value that holds a colon sets Basic auth with the
\* text before the first colon as username and all the text after it as
\* password, and sets no auth for a value without a colon; the auth of the
\* scan is always that of the latest -u or Authorization header that set one;
\* `curl -u alice:secret https://x.test` yields Basic(alice, secret) and GET.
C13_UserFlagYieldsBasic ==
    /\ [][ FlagStep("user") =>
              pc'.auth = IF UserAuth(pc.tokens[pc.i + 1]) = None THEN pc.auth
                         ELSE UserAuth(pc.tokens[pc.i + 1]) ]_vars
    /\ []( pc.at \in {"loop", "done"} => pc.auth = LatestAuth )
    /\ []( (pc.at = "done" /\ pc.result # None) => pc.result[1].auth = pc.auth )
    /\ []( (pc.at = "done" /\ pc.input = "curl -u alice:secret https://x.test") =>
              pc.result = Some([url |-> "https://x.test", method |-> "GET",
                                headers |-> "", body |-> "",
                                auth |-> Some(<<"Basic", "", "alice", "secret">>)]) )

C13_Witness ==
    /\ pc.at = "done"
    /\ pc.input = "curl -H 'Authorization: Bearer t' -u a:b:c https://x.test"
    /\ pc.result # None
    /\ pc.result[1].auth = Some(<<"Basic", "", "a", "b:c">>)

\* whether the j-th token is the value of the flag before it: the token before
\* it is one of the flags -X, -H, -d, -u (or a long form) and is not itself
\* the value of a flag
RECURSIVE IsFlagValue(_, _)
IsFlagValue(tokens, j) ==
    /\ j > 1
    /\ tokens[j - 1] \in RequestFlags \cup HeaderFlags \cup DataFlags \cup UserFlags
    /\ ~IsFlagValue(tokens, j - 1)

\* the last bare token among the first n that begins with http:// or https://,
\* "" when there is none
LastBareUrl(tokens, n) ==
    LET us == {j \in 1..n :
                 /\ ~IsFlagValue(tokens, j)
                 /\ \/ (Len(tokens[j]) >= 7 /\ SubSeq(tokens[j], 1, 7) = "http://")
                    \/ (Len(tokens[j]) >= 8 /\ SubSeq(tokens[j], 1, 8) = "https://")}
    IN  IF us = {} THEN "" ELSE tokens[CHOOSE j \in us : \A m \in us : m <= j]

\* C14: the URL of the scan is the last bare token so far that begins with
\* http:// or https://, and the returned URL is the last one of the command;
\* a token that matches no flag and no URL prefix changes no field: the scan
\* only moves past it.
C14_UrlIsLastBareUrlToken ==
    /\ []( pc.at = "loop" =>
              /\ pc.i <= Len(pc.tokens) => ~IsFlagValue(pc.tokens, pc.i)
              /\ pc.url = LastBareUrl(pc.tokens, pc.i - 1) )
    /\ []( (pc.at = "done" /\ pc.result # None) =>
              pc.result[1].url = LastBareUrl(pc.tokens, Len(pc.tokens)) )
    /\ [][ AtArm("other") =>
              pc' = [pc EXCEPT !.i = pc.i + 1, !.arms = pc'.arms] ]_vars

C14_Witness ==
    /\ pc.at = "done"
    /\ pc.input = "curl https://a.test -d https://b.test http://c.test ftp://d.test extra HTTP://E.TEST"
    /\ pc.result # None
    /\ pc.result[1].url = "http://c.test"
    /\ pc.result[1].body = "https://b.test"

\* the quote character that is open after the character c, "" when none is,
\* given the one open before it: a quote character opens a quote when none is
\* open, and only the character that opened a quote closes it
QuoteAfter(q, c) ==
    IF q = "" THEN (IF c \in {"'", "\""} THEN c ELSE "")
    ELSE IF c = q THEN "" ELSE q

\* what a character is to the tokenizer when the quote q is open before it: a
\* quote that delimits a quoted region, a separator, a dropped backslash, or a
\* character of a token
CharClass(q, c) ==
    IF q = "" THEN
        IF c \in {"'", "\""} THEN "delimiter"
        ELSE IF c \in {" ", "\t", "\n"} THEN "separator"
        ELSE IF c = "\\" THEN "dropped"
        ELSE "literal"
    ELSE IF c = q THEN "delimiter" ELSE "literal"

\* the classes of the characters lo..hi of s, and the quote open after them,
\* given the quote q open before them
RECURSIVE Classes(_, _, _, _)
Classes(s, lo, hi, q) ==
    IF lo > hi THEN [cls |-> <<>>, open |-> q]
    ELSE IF lo = hi THEN
        [cls |-> <<CharClass(q, CharAt(s, lo))>>, open |-> QuoteAfter(q, CharAt(s, lo))]
    ELSE LET mid == (lo + hi) \div 2
             left == Classes(s, lo, mid, q)
         IN  IF left.open \in {"", "'", "\""}      \* the left half is evaluated first
             THEN LET right == Classes(s, mid + 1, hi, left.open)
                  IN  [cls |-> left.cls \o right.cls, open |-> right.open]
             ELSE left

\* the literal characters among the characters lo..hi of s, in order
RECURSIVE LiteralText(_, _, _, _)
LiteralText(s, cls, lo, hi) ==
    IF lo > hi THEN ""
    ELSE IF lo = hi THEN (IF cls[lo] = "literal" THEN CharAt(s, lo) ELSE "")
    ELSE LiteralText(s, cls, lo, (lo + hi) \div 2)
            \o LiteralText(s, cls, (lo + hi) \div 2 + 1, hi)

\* the non-empty literal texts of the runs between separators, from the
\* separator (or start) b on
RECURSIVE RunsFrom(_, _, _)
RunsFrom(s, cls, b) ==
    IF b > Len(s) THEN <<>>
    ELSE LET ends == {e \in (b + 1)..(Len(s) + 1) : e = Len(s) + 1 \/ cls[e] = "separator"}
             e == CHOOSE x \in ends : \A y \in ends : x <= y
             text == LiteralText(s, cls, b + 1, e - 1)
         IN  (IF text = "" THEN <<>> ELSE <<text>>) \o RunsFrom(s, cls, e)

\* the tokens of s by that account
TokensByClass(s) ==
    LET cls == Classes(s, 1, Len(s), "").cls
    IN  RunsFrom(s, cls, 0)

QuotedExample == "curl -d \"it's a\\b\" 'say \"hi\"' a\\b\"c d\"e http://x"

\* C15: the tokens are the runs of the trimmed command between unquoted
\* spaces, tabs and newlines, without the quote characters that open and
\* close quoted regions and without the backslashes outside quotes; a quote is
\* closed only by the character that opened it, everything else inside it is
\* kept, and a dropped backslash does not end the token it stands in.
C15_TokensAreUnquotedRuns ==
    /\ [][ PcTokenize => pc'.tokens = TokensByClass(Trim(pc.input)) ]_vars
    /\ []( (pc.at = "loop" /\ pc.input = QuotedExample) =>
              pc.tokens = <<"curl", "-d", "it's a\\b", "say \"hi\"", "abc de", "http://x">> )

C15_Witness ==
    /\ pc.at = "done"
    /\ pc.input = QuotedExample
    /\ pc.result # None
    /\ pc.result[1].body = "it's a\\b"
    /\ Len(pc.tokens) = 6
    /\ pc.tokens[5] = "abc de"

\* C16: ImportCurl with a result sets the URL and the method to the result's,
\* sets the headers and the body only when the result's are non-empty, and
\* sets the auth only when the result holds one; every other one of these
\* fields keeps its value, and all of them do when parse_curl returns nothing.
C16_ImportOverwritesPopulatedFields ==
    [][ ImportCurl =>
          LET parsed == ParseCurl(curl_input)
          IN  IF parsed = None THEN
                  UNCHANGED <<url, method, request_headers, request_body,
                              auth_type, auth_token, auth_username, auth_password>>
              ELSE
                  /\ url' = parsed[1].url
                  /\ method' = parsed[1].method
                  /\ request_headers' = IF parsed[1].headers = "" THEN request_headers
                                        ELSE parsed[1].headers
                  /\ request_body' = IF parsed[1].body = "" THEN request_body
                                     ELSE parsed[1].body
                  /\ <<auth_type', auth_token', auth_username', auth_password'>> =
                        IF parsed[1].auth = None
                        THEN <<auth_type, auth_token, auth_username, auth_password>>
                        ELSE parsed[1].auth[1] ]_vars

C16_Witness ==
    /\ ~show_curl_import
    /\ url = "https://j.test"
    /\ method = "GET"
    /\ request_headers = "X:1"
    /\ request_body = "old body"
    /\ <<auth_type, auth_token, auth_username, auth_password>> = <<"Basic", "", "u0", "p0">>

\* the lines of a parameter text that are kept: those that hold a "="
KeptParams(params) == SelectSeq(Lines(params), LAMBDA l : ContainsChar(l, "="))

\* the URL of the request a step has just issued is u
IssuedUrl(u) == \E t \in tasks' \ tasks : t.request.url = u

\* C17: the request Send issues goes to the URL followed by the kept lines of
\* the parameter text, verbatim and in order, joined by "&" and appended after
\* "?" when the URL holds no "?" and after "&" when it does; to the URL as it
\* is when no line is kept.  With the lines a=1 and b=2 the URL ends in
\* ?a=1&b=2, or in &a=1&b=2 when it already holds a "?".
C17_QueryAssembly ==
    /\ [][ Send =>
              IF Len(KeptParams(query_params)) = 0 THEN IssuedUrl(url)
              ELSE IssuedUrl(url \o (IF ContainsChar(url, "?") THEN "&" ELSE "?")
                                 \o Join(KeptParams(query_params), "&")) ]_vars
    /\ []( \A t \in tasks :
              /\ (url = "https://x.test/a" /\ query_params = "a=1\nb=2") =>
                    t.request.url = "https://x.test/a?a=1&b=2"
              /\ (url = "https://x.test/a?k=v" /\ query_params = "a=1\nb=2") =>
                    t.request.url = "https://x.test/a?k=v&a=1&b=2" )

C17_Witness ==
    /\ url = "https://x.test/a?k=v"
    /\ query_params = "a=1\n\nnote\nb=2\n"
    /\ \E t \in tasks : t.request.url = "https://x.test/a?k=v&a=1&b=2"

\* the headers send_request is to put on the request: the synthesized
\* Authorization header, when there is one, then one header per line of the
\* header text that holds a colon, in line order
HeadersToSend ==
    (IF \/ sr.auth_type = "Bearer" /\ sr.auth_token # ""
        \/ sr.auth_type = "Basic" /\ sr.auth_username # ""
     THEN <<<<"Authorization", SynthesizedAuth>>>> ELSE <<>>)
        \o HeaderPairs(sr.headers_str)

\* send_request has called builder.send() with a URL reqwest accepts
SendCalled == sr.at \in {"elapsed", "text", "done"} /\ UrlValid(sr.url)

\* C18 as stated: whatever the header text, once send is called the request
\* given to the transport carries one header for every line that holds a
\* colon, named by the trimmed text before the first colon and valued by the
\* trimmed text after it, in line order, after the synthesized Authorization
\* header, with duplicates kept.
C18_EveryColonLineSent ==
    SendCalled => (sr.wire # None /\ sr.wire[1].headers = HeadersToSend)

\* C18 as amended: that holds when every such name is a header name and every
\* such value a header value; when one is not, nothing is given to the
\* transport and send_request returns an error.
C18_ValidColonLinesSent ==
    SendCalled =>
        \A hs \in {HeadersToSend} :
            IF \A k \in 1..Len(hs) : HeaderNameValid(hs[k][1]) /\ HeaderValueValid(hs[k][2])
            THEN sr.wire # None /\ sr.wire[1].headers = hs
            ELSE sr.wire = None /\ sr.result # None /\ ~sr.result[1].ok

C18_Witness ==
    /\ sr.at = "done"
    /\ sr.result # None
    /\ sr.result[1].ok
    /\ sr.auth_type = "Bearer"
    /\ sr.wire[1].headers =
          << <<"Authorization", "Bearer abc123">>, <<"Authorization", "mine">>,
             <<"X-A", "1">>, <<"X-A", "2">> >>

\* the step named e is among the steps send_request has taken
Took(e) == \E k \in 1..Len(sr.events) : sr.events[k] = e

\* what C19 says of every result of send_request: it is a Response exactly when
\* the transport delivered a status line and the body was read, whatever the
\* status (200, 404, 500), and the Response carries that status; otherwise it
\* is an error holding one message and no Response, the message of the await
\* that returned it: the send, before any status arrived, or the read of the
\* body.
ResponseOrMessage ==
    /\ sr.at = "done"
    /\ sr.result[1].ok <=> (sr.head # None /\ Took("body_read"))
    /\ sr.result[1].ok =>
          /\ DOMAIN sr.result[1] = {"ok", "response"}
          /\ sr.result[1].response.status = sr.head[1].status
          /\ sr.result[1].response.status \in Statuses
    /\ ~sr.result[1].ok =>
          /\ DOMAIN sr.result[1] = {"ok", "err"}
          /\ sr.result[1].err =
                IF sr.head = None THEN "error sending request"
                ELSE "error decoding response body"

\* C19 as stated: every status the transport delivers gives a Response, and an
\* error is returned only when the transport, having been given the request,
\* fails while sending it or while reading the body; the error is one message
\* without a Response.
C19_ErrorOnlyWhenTransportFails ==
    sr.result # None =>
        /\ ResponseOrMessage
        /\ ~sr.result[1].ok => sr.wire # None

\* C19 as amended: an error is returned when the transport fails while sending
\* or while reading the body, and also when the request could not be built
\* (its URL, a header name or a header value was rejected), in which case the
\* send returns the error and the transport is given nothing.
C19_EveryStatusIsAResponse ==
    sr.result # None =>
        /\ ResponseOrMessage
        /\ sr.builder[1].err <=> sr.wire = None
        /\ sr.wire = None => (~sr.result[1].ok /\ sr.head = None)

C19_Witness ==
    /\ sr.at = "done"
    /\ sr.result # None
    /\ sr.result[1].ok
    /\ sr.result[1].response.status = 500
    /\ sr.result[1].response.status_text = "Internal Server Error"

\* C20: for a text that serde_json does not parse, format_json gives back the
\* text as it is, the scan of json_to_spans runs over that text (what it has
\* taken so far is the text up to the scan position), and the spans it ends
\* with spell the text unchanged.
C20_InvalidJsonPassesThrough ==
    (js.at \in {"scan", "done"} /\ ~FromStr(js.s).ok) =>
        /\ js.formatted = js.s
        /\ js.at = "scan" =>
              SpanText(Flush(js.spans, js.current)) = SubSeq(js.s, 1, js.pos - 1)
        /\ js.at = "done" => SpanText(js.spans) = js.s

C20_Witness ==
    /\ js.at = "done"
    /\ js.s = " [1x"
    /\ ~FromStr(js.s).ok
    /\ js.formatted = " [1x"
    /\ Len(js.spans) = 4

\* C21: for a text that serde_json parses, the text format_json gives is
\* itself a text serde_json parses, and format_json gives it back unchanged.
C21_PrettyPrintIdempotent ==
    (js.at \in {"scan", "done"} /\ FromStr(js.s).ok) =>
        /\ js.formatted = format_json(js.s)
        /\ FromStr(js.formatted).ok
        /\ format_json(js.formatted) = js.formatted

C21_Witness ==
    /\ js.at = "scan"
    /\ js.s = " {\"b\": 1.50, \"a\": [ ], \"b\": \"x\\/y\", \"c\": [-0, 2E+3, {}]}\n"
    /\ js.formatted =
          "{\n  \"b\": \"x/y\",\n  \"a\": [],\n  \"c\": [\n    -0.0,\n    2000.0,\n    {}\n  ]\n}"
    /\ format_json(js.formatted) = js.formatted

\* the request of the Send numbered id is in flight
InFlight(id) == \E t \in tasks : t.id = id

\* C22: with a transport that returns in the end, the request of every
\* processed Send is in flight until its one ResponseReceived arrives, which it
\* does; that message takes exactly this request out of flight, issues
\* nothing and leaves loading false; a request never comes back into flight;
\* and requests are issued only by Send, one for each Send processed.
C22_EverySendCompletesOnce ==
    /\ \A id \in 1..MaxSends : InFlight(id) ~> ~InFlight(id)
    /\ [][ /\ Cardinality(tasks' \ tasks) = issued' - issued
           /\ \A t \in tasks' \ tasks : t.id = issued' /\ issued' = issued + 1
           /\ \A t \in tasks \ tasks' :
                 /\ tasks' = tasks \ {t}
                 /\ issued' = issued
                 /\ ~loading'
           /\ (ResponseReceivedOk \/ ResponseReceivedErr) =>
                 /\ Cardinality(tasks') = Cardinality(tasks) - 1
                 /\ issued' = issued
                 /\ ~loading' ]_vars
    /\ [](\A t \in tasks : t.id <= issued)
    /\ [](Cardinality({t.id : t \in tasks}) = Cardinality(tasks))

C22_Witness ==
    /\ issued = 2
    /\ tasks = {}
    /\ ~loading
    /\ error # None

\* the scan stands before a t, f or n that does not begin true, false or null
AtFailedKeyword ==
    /\ AtJsArm("keyword")
    /\ \A w \in {"true", "false", "null"} : ~HasAt(js.formatted, js.pos, w)

\* C23: a step of the scan at a t, f or n that does not complete true, false
\* or null emits no span and puts the characters it consumes at the end of the
\* pending plain text, so that the text xtz ends as one plain span.
C23_FailedKeywordJoinsPlainText ==
    /\ [][ AtFailedKeyword =>
             /\ js'.spans = js.spans
             /\ js'.current = js.current \o SubSeq(js.formatted, js.pos, js'.pos - 1) ]_vars
    /\ []((js.at = "done" /\ js.s = "xtz") =>
             js.spans = <<[text |-> "xtz", style |-> "plain"]>>)

\* how many backslashes stand in a row directly before position q, counted
\* back to the opening quote at position p
BackslashRun(f, p, q) ==
    LET others == {k \in p..(q - 1) : CharAt(f, k) # "\\"}
    IN  q - 1 - (CHOOSE k \in others : \A m \in others : k >= m)

\* where the string opened at position p ends: at the first later quote with
\* an even number of backslashes directly before it (each backslash that is
\* not itself taken by one before it takes the character after it), or at the
\* end of the text
StringSpanEnd(f, p) ==
    LET closing == {q \in (p + 1)..Len(f) :
                       CharAt(f, q) = "\"" /\ BackslashRun(f, p, q) % 2 = 0}
    IN  IF closing = {} THEN Len(f)
        ELSE CHOOSE q \in closing : \A k \in closing : q <= k

\* the first character after position e that is not whitespace ("" if none)
NextVisible(f, e) ==
    LET visible == {k \in (e + 1)..Len(f) : CharAt(f, k) \notin WhiteSpace}
    IN  IF visible = {} THEN ""
        ELSE CharAt(f, CHOOSE k \in visible : \A m \in visible : k <= m)

\* C24: a step of the scan at a double quote emits, after the pending plain
\* text, one span that runs from the quote to where the string ends; it is a
\* key exactly when the first character after it that is not whitespace is a
\* colon, a string otherwise; and the scan goes on directly after the span.
C24_StringSpanAndKey ==
    [][ AtJsArm("string") =>
          \E e \in {StringSpanEnd(js.formatted, js.pos)} :
             /\ js'.spans =
                   Append(Flush(js.spans, js.current),
                          [text |-> SubSeq(js.formatted, js.pos, e),
                           style |-> IF NextVisible(js.formatted, e) = ":"
                                     THEN "key" ELSE "string"])
             /\ js'.pos = e + 1
             /\ js'.current = "" ]_vars

C24_Witness ==
    /\ js.at = "done"
    /\ js.s = "\"a\\\"b\" \n\t: \"c\\"
    /\ js.spans = << [text |-> "\"a\\\"b\"", style |-> "key"],
                     [text |-> " \n\t", style |-> "plain"],
                     [text |-> ":", style |-> "punctuation"],
                     [text |-> " ", style |-> "plain"],
                     [text |-> "\"c\\", style |-> "string"] >>

\* C25: when the scan ends, the spans it produced (the pending plain text
\* included) are the output unless there are none, which is so exactly for the
\* empty input; then the output is one span holding the input, which is empty
\* as the formatted text is.  Every other output has at least one span and no
\* span with an empty text.
C25_FallbackOnlyForEmptyInput ==
    /\ [][ (js.at = "scan" /\ js.pos > Len(js.formatted)) =>
             \E produced \in {Flush(js.spans, js.current)} :
                /\ produced = <<>> <=> js.s = ""
                /\ produced # <<>> => js'.spans = produced
                /\ produced = <<>> => js'.spans = <<[text |-> js.s, style |-> "plain"]>> ]_vars
    /\ [](js.at = "done" =>
             /\ Len(js.spans) >= 1
             /\ js.s = "" => (js.formatted = "" /\ Len(js.spans) = 1 /\ js.spans[1].text = "")
             /\ js.s # "" => \A k \in 1..Len(js.spans) : js.spans[k].text # "")

C25_Witness ==
    /\ js.at = "done"
    /\ js.s = ""
    /\ js.formatted = ""
    /\ js.spans = <<[text |-> "", style |-> "plain"]>>

\* C26: Message::Send is processed only while loading is false, so at most one
\* request is in flight in every state.
C26_AtMostOneInFlight ==
    /\ [][ issued' # issued => ~loading ]_vars
    /\ [](Cardinality(tasks) <= 1)

\* C27: the entry a ResponseReceived(Ok) appends to the history holds the
\* method and the URL of the request whose response arrived, whatever was
\* edited, imported or clicked while the request was in flight.
C27_HistoryRecordsTheRequest ==
    [][ \A t \in tasks \ tasks' :
           Len(history') = Len(history) + 1 =>
               /\ history'[Len(history')].method = t.request.method
               /\ history'[Len(history')].url = t.request.url ]_vars

\* C28: loading is true exactly when some request is in flight: a Send makes
\* it true, and it becomes false only when no request is left without its
\* ResponseReceived.
C28_LoadingIffInFlight ==
    /\ [](loading <=> tasks # {})
    /\ [][ /\ issued' # issued => loading'
           /\ (loading /\ ~loading') => tasks' = {} ]_vars

\* C29: the held response and the held error are never both present.  Send
\* clears the error and leaves the response; ResponseReceived(Ok) stores the
\* response and clears the error; ResponseReceived(Err) stores the error and
\* clears the response; every other message leaves both as they are.
C29_ResponseXorError ==
    /\ [](~(response # None /\ error # None))
    /\ [][ /\ Send => (error' = None /\ response' = response)
           /\ ResponseReceivedOk => (response' # None /\ error' = None)
           /\ ResponseReceivedErr => (error' # None /\ response' = None)
           /\ (issued' = issued /\ tasks' = tasks) =>
                 (response' = response /\ error' = error) ]_vars

C29_Witness ==
    /\ issued = 2
    /\ tasks = {}
    /\ error # None
    /\ response = None
    /\ history = <<[method |-> "GET", url |-> "https://httpbin.org/get", status |-> 200]>>

\* a command line whose value-taking flags are each followed by an empty
\* quoted argument, and which ends with a value-taking flag
EmptyArgsExample ==
    "curl -X '' POST -H \"\" 'A: 1' -d '' v -u \"\" u:p https://x.test '' --request \"\""

\* the flag loop stands before a value-taking flag that is the last token
AtLastFlag ==
    /\ pc.at = "loop"
    /\ pc.i = Len(pc.tokens)
    /\ ArmOf(pc.tokens[pc.i]) \in {"request", "header", "data", "user"}

\* C30: no token of the tokenizer is empty; an empty quoted argument gives no
\* token, so that each flag of the example takes the token after it as its
\* value; and a value-taking flag that is the last token is passed over
\* without a change to the URL, method, headers, body or auth.
C30_NoEmptyToken ==
    /\ [](pc.at \in {"loop", "done"} =>
             \A k \in 1..Len(pc.tokens) : pc.tokens[k] # "")
    /\ []((pc.at \in {"loop", "done"} /\ pc.input = EmptyArgsExample) =>
             pc.tokens = <<"curl", "-X", "POST", "-H", "A: 1", "-d", "v", "-u", "u:p",
                           "https://x.test", "--request">>)
    /\ []((pc.at = "done" /\ pc.input = EmptyArgsExample) =>
             pc.result = Some([url |-> "https://x.test", method |-> "POST",
                               headers |-> "A: 1", body |-> "v",
                               auth |-> Some(<<"Basic", "", "u", "p">>)]))
    /\ [][ AtLastFlag => pc' = [pc EXCEPT !.i = pc.i + 1, !.arms = pc'.arms] ]_vars

C30_Witness ==
    /\ pc.at = "done"
    /\ pc.input = EmptyArgsExample
    /\ Len(pc.tokens) = 11
    /\ pc.i = 12
    /\ pc.result # None
    /\ pc.result[1].method = "POST"

====
